---- MODULE Spec2Model ----
(***************************************************************************)
(* A model of the eMMC / SDHCI host-controller driver: the command         *)
(* execution engine (emmc/cmd.rs), the block transfer layer                *)
(* (emmc/block.rs) and the card bring-up sequence (emmc/mod.rs,            *)
(* sdhci/mod.rs).                                                          *)
(*                                                                         *)
(* Every driver call is synchronous, so one call is one action.  What the  *)
(* hardware answers during the call is an input of the action (a "hardware *)
(* script": for how many polls a bit stays set, which status appears).     *)
(* The register accesses a call makes are recorded, in order, in `log`.    *)
(***************************************************************************)
EXTENDS Integers, Naturals, Sequences, FiniteSets, TLC

VARIABLES
    card,       \* EMmcHost.card: NoCard or the EMmcCard record
    sd_card,    \* SdHost.card: NoCard or the SdCard record
    op,         \* the call being made / made last, with its inputs
    res,        \* its result: "-" (none yet), "Ok", an SdError name, "Panic"
    log,        \* the register accesses of that call, in program order
    overflow_checks \* build profile: TRUE = arithmetic overflow panics

vars == <<card, sd_card, op, res, log, overflow_checks>>

----------------------------------------------------------------------------
(* Bounds of the model *)

\* "the bit never clears / the status never appears": larger than every
\* polling budget of the driver
Never == 1000

\* largest block count the block operations are called with
MaxBlocks == 3

\* iterations after which a polling loop of the model is cut off; larger
\* than every polling budget of the driver, so that no loop is ever cut
LoopFuel == 1024

----------------------------------------------------------------------------
(* Program constants: emmc/constant.rs, emmc/cmd.rs *)

CMD_DEFAULT_TIMEOUT == 100
CMD_MAX_TIMEOUT == 500

MMC_MAX_BLOCK_LEN == 512

\* the retry count init_card passes to mmc_send_op_cond, mod.rs:218
OpCondRetries == 100

EMMC_CMD_CRC == 8
EMMC_CMD_INDEX == 16
EMMC_CMD_DATA == 32
EMMC_CMD_RESP_LONG == 1
EMMC_CMD_RESP_SHORT == 2
EMMC_CMD_RESP_SHORT_BUSY == 3

EMMC_TRNS_BLK_CNT_EN == 2
EMMC_TRNS_READ == 16
EMMC_TRNS_MULTI == 32

EMMC_DATA_INHIBIT == 1
EMMC_CMD_INHIBIT == 2
EMMC_WRITE_PROTECT == 524288

EMMC_RESET_ALL == 1
EMMC_RESET_CMD == 2
EMMC_RESET_DATA == 4

EMMC_INT_RESPONSE == 1
EMMC_INT_DATA_END == 2
EMMC_INT_SPACE_AVAIL == 16
EMMC_INT_DATA_AVAIL == 32
EMMC_INT_ERROR == 32768
EMMC_INT_CMD_MASK == 1 + 65536 + 131072 + 262144 + 524288 + 16777216
EMMC_INT_DATA_MASK == 2 + 1048576 + 2097152 + 4194304 + 33554432

MMC_GO_IDLE_STATE == 0
MMC_SEND_OP_COND == 1
MMC_ALL_SEND_CID == 2
MMC_SET_RELATIVE_ADDR == 3
MMC_SET_DSR == 4
MMC_SWITCH == 6
MMC_SELECT_CARD == 7
MMC_SEND_EXT_CSD == 8
MMC_SEND_CSD == 9
MMC_STOP_TRANSMISSION == 12
MMC_SEND_STATUS == 13
MMC_READ_SINGLE_BLOCK == 17
MMC_READ_MULTIPLE_BLOCK == 18
MMC_WRITE_BLOCK == 24
MMC_WRITE_MULTIPLE_BLOCK == 25

MMC_RSP_PRESENT == 1
MMC_RSP_136 == 2
MMC_RSP_CRC == 4
MMC_RSP_BUSY == 8
MMC_RSP_OPCODE == 16

MMC_RSP_NONE == 0
MMC_RSP_R1 == MMC_RSP_PRESENT + MMC_RSP_CRC + MMC_RSP_OPCODE
MMC_RSP_R1B == MMC_RSP_PRESENT + MMC_RSP_CRC + MMC_RSP_OPCODE + MMC_RSP_BUSY
MMC_RSP_R2 == MMC_RSP_PRESENT + MMC_RSP_136 + MMC_RSP_CRC
MMC_RSP_R3 == MMC_RSP_PRESENT

MMC_STATE_HIGHCAPACITY == 16
EXT_CSD_BUS_WIDTH == 183
EXT_CSD_HS_TIMING == 185
EXT_CSD_BUS_WIDTH_4 == 1
EXT_CSD_BUS_WIDTH_8 == 2

\* constants the driver uses from files that are not part of the sources
MMC_TIMING_LEGACY == 0
MMC_TIMING_MMC_HS == 1
MMC_TIMING_SD_HS == 2
MMC_TIMING_MMC_HS200 == 9
MMC_TIMING_MMC_HS400ES == 11
MMC_BUS_WIDTH_4BIT == 4
MMC_BUS_WIDTH_8BIT == 8
MMCPART_NOAVAILABLE == 255
EXT_CSD_ERASE_GROUP_DEF == 175
EXT_CSD_TIMING_HS == 1
EXT_CSD_TIMING_HS200 == 2
MMC_SWITCH_MODE_WRITE_BYTE == 3
MMC_SEND_TUNING_BLOCK_HS200 == 21
MMC_HIGH_26_MAX_DTR == 26000000
MMC_HIGH_52_MAX_DTR == 52000000
MMC_HS200_MAX_DTR == 200000000
EXT_CSD_CARD_TYPE_26 == 1
EXT_CSD_CARD_TYPE_52 == 2
EXT_CSD_CARD_TYPE_DDR_1_8V == 4
EXT_CSD_CARD_TYPE_DDR_1_2V == 8
EXT_CSD_CARD_TYPE_HS200_1_8V == 16
EXT_CSD_CARD_TYPE_HS200_1_2V == 32
EXT_CSD_CARD_TYPE_HS400_1_8V == 64
EXT_CSD_CARD_TYPE_HS400_1_2V == 128
EXT_CSD_CARD_TYPE_HS400ES == 256
MMC_MODE_HS == 1
MMC_MODE_HS_52MHZ == 2
MMC_MODE_4BIT == 4
MMC_MODE_8BIT == 8
MMC_MODE_DDR_52MHZ == 32
MMC_MODE_HS200 == 64
MMC_MODE_HS400 == 128
MMC_MODE_HS400ES == 256
MMC_CTRL_EXEC_TUNING == 64
MMC_CTRL_TUNED_CLK == 128
MAX_TUNING_LOOP == 40
EMMC_POWER_ON == 1
EMMC_POWER_180 == 10
EMMC_POWER_300 == 12
EMMC_POWER_330 == 14
EXT_CSD_PARTITION_SETTING_COMPLETED == 1
PART_SUPPORT == 1
PART_ENH_ATTRIB == 31

----------------------------------------------------------------------------
(* Machine words *)

\* x & m != 0 for a single-bit mask m (a power of two)
Test(x, m) == (x \div m) % 2 = 1

BitPos == 0..19

\* (x & m) != 0
AnyCommon(x, m) == \E i \in BitPos : Test(x, 2^i) /\ Test(m, 2^i)

\* (x & m) == m
HasAll(x, m) == \A i \in BitPos : Test(m, 2^i) => Test(x, 2^i)

\* A u32 is kept as its two 16-bit halves, so that the full 32-bit width is
\* available (block addresses and arguments go up to 2^32 - 1).
W(n) == [hi |-> n \div 65536, lo |-> n % 65536]

\* bitwise and / or of two naturals
RECURSIVE BitAnd(_, _)
BitAnd(a, b) ==
    IF a = 0 \/ b = 0 THEN 0
    ELSE (a % 2) * (b % 2) + 2 * BitAnd(a \div 2, b \div 2)

RECURSIVE BitOr(_, _)
BitOr(a, b) ==
    IF a = 0 THEN b
    ELSE IF b = 0 THEN a
    ELSE (IF a % 2 = 1 \/ b % 2 = 1 THEN 1 ELSE 0)
         + 2 * BitOr(a \div 2, b \div 2)

And32(x, y) == [hi |-> BitAnd(x.hi, y.hi), lo |-> BitAnd(x.lo, y.lo)]
Or32(x, y) == [hi |-> BitOr(x.hi, y.hi), lo |-> BitOr(x.lo, y.lo)]

\* x << 16 on a u32
Shl16(x) == [hi |-> x.lo, lo |-> 0]

\* u64 as four 16-bit limbs, least significant first
U64Of(n) == <<n % 65536, n \div 65536, 0, 0>>

U64OfW(w) == <<w.lo, w.hi, 0, 0>>

\* the limbs after carrying; the carry out of the top limb is lost
U64Carry(s) ==
    LET t2 == s[2] + (s[1] \div 65536)
        t3 == s[3] + (t2 \div 65536)
        t4 == s[4] + (t3 \div 65536)
    IN  <<s[1] % 65536, t2 % 65536, t3 % 65536, t4 % 65536>>

\* v * m for m <= 32768
U64Mul(v, m) == U64Carry(<<v[1] * m, v[2] * m, v[3] * m, v[4] * m>>)

\* (v >> 20) > 2 * 1024
U64Over2G(v) == v[4] > 0 \/ v[3] * 4096 + (v[2] \div 16) > 2048

\* u32 multiplication by 512: the wrapped product and whether it overflowed
Mul512(w) ==
    LET l == w.lo * 512
        h == w.hi * 512 + (l \div 65536)
    IN  [val |-> [hi |-> h % 65536, lo |-> l % 65536], overflow |-> h >= 65536]

----------------------------------------------------------------------------
(* Register-access events *)

Rd(reg) == [k |-> "r", r |-> reg, v |-> 0]
Wr(reg, val) == [k |-> "w", r |-> reg, v |-> val]
Delay(us) == [k |-> "delay", r |-> "-", v |-> us]
\* bytes [from, to) of the caller's buffer written to the buffer data port
Push(from, to) == [k |-> "push", r |-> "BUF_DATA", v |-> <<from, to>>]
\* n bytes read from the buffer data port into the caller's buffer
Pull(n) == [k |-> "pull", r |-> "BUF_DATA", v |-> n]

----------------------------------------------------------------------------
(* The views of a response: emmc/cmd.rs:43-82.  raw is the four response  *)
(* registers, raw[1] the one at the lowest address (raw[0] of the code).  *)

\* SdResponse::as_r1, cmd.rs:52-54
as_r1(raw) == raw[1]

\* as_r2 with every word shifted on its own, nothing carried in from the
\* word below
as_r2_NoCarry(raw) ==
    [i \in 1..4 |->
       [hi |-> (raw[5 - i].hi % 256) * 256 + (raw[5 - i].lo \div 256),
        lo |-> (raw[5 - i].lo % 256) * 256]]

\* SdResponse::as_r2, cmd.rs:56-69: response[i] = raw[3 - i] << 8, with
\* raw[3 - i - 1] >> 24 in its low byte except for the last word
as_r2(raw) ==
    LET Shl8(w) == [hi |-> (w.hi % 256) * 256 + (w.lo \div 256),
                    lo |-> (w.lo % 256) * 256]
        Shr24(w) == [hi |-> 0, lo |-> w.hi \div 256]
    IN  [i \in 1..4 |->
           IF i # 4 THEN Or32(Shl8(raw[5 - i]), Shr24(raw[4 - i]))
           ELSE Shl8(raw[5 - i])]

\* SdResponse::as_r3, cmd.rs:71-73
as_r3(raw) == raw[1]

\* SdResponse::as_r6, cmd.rs:75-77
as_r6(raw) == raw[1]

\* SdResponse::as_r7, cmd.rs:79-81
as_r7(raw) == raw[1]

----------------------------------------------------------------------------
(* Command descriptors and data buffers: emmc/cmd.rs, emmc/block.rs *)

EMmcCommand_new(opcode, arg, resp_type) ==
    [opcode |-> opcode, arg |-> arg, resp_type |-> resp_type,
     data_present |-> FALSE, data_dir_read |-> TRUE,
     block_size |-> 0, block_count |-> 0]

with_data(cmd, block_size, block_count, is_read) ==
    [cmd EXCEPT !.data_present = TRUE, !.data_dir_read = is_read,
                !.block_size = block_size, !.block_count = block_count]

\* DataBuffer: kind is "None" (no buffer passed), "Read" or "Write"
NoBuffer == [kind |-> "None", len |-> 0]
ReadBuffer(len) == [kind |-> "Read", len |-> len]
WriteBuffer(len) == [kind |-> "Write", len |-> len]

----------------------------------------------------------------------------
(* What the hardware shows during one send_command call.                   *)
(*   cmdBusy, datBusy : number of present-state reads that still see the   *)
(*                      command / data inhibit bit set                     *)
(*   pre, stat        : the completion wait reads 0 `pre` times, then stat *)
(*   err              : the error interrupt status register                *)
(*   rstCmd, rstDat   : number of software-reset reads that still see the  *)
(*                      command / data reset bit set                       *)
(*   dpre, dstat, derr: as pre, stat, err, for the reads of the data phase *)

PresentState(hw, k) ==
    (IF k < hw.cmdBusy THEN EMMC_CMD_INHIBIT ELSE 0)
    + (IF k < hw.datBusy THEN EMMC_DATA_INHIBIT ELSE 0)

IntStatus(pre, stat, k) == IF k < pre THEN 0 ELSE stat

GoodHw ==
    [cmdBusy |-> 0, datBusy |-> 0,
     pre |-> 0, stat |-> EMMC_INT_RESPONSE + EMMC_INT_DATA_END, err |-> 0,
     rstCmd |-> 0, rstDat |-> 0,
     dpre |-> 0, dstat |-> EMMC_INT_DATA_END, derr |-> 0]

----------------------------------------------------------------------------
(* EMmcHost::send_command, emmc/cmd.rs:86-451 *)

\* the mask without the exception for STOP_TRANSMISSION
InhibitMask_DataAlways(cmd) ==
    IF cmd.data_present THEN EMMC_CMD_INHIBIT + EMMC_DATA_INHIBIT
    ELSE EMMC_CMD_INHIBIT

\* the inhibit mask, cmd.rs:91-99
InhibitMask(cmd) ==
    LET m0 == EMMC_CMD_INHIBIT
        m1 == IF cmd.data_present THEN m0 + EMMC_DATA_INHIBIT ELSE m0
    IN  IF cmd.opcode = MMC_STOP_TRANSMISSION /\ Test(m1, EMMC_DATA_INHIBIT)
        THEN m1 - EMMC_DATA_INHIBIT
        ELSE m1

\* the inhibit wait as a do-while: the delay comes before the test
InhibitStep_DelayFirst(mask, hw, s) ==
    LET rd == s.log \o <<Rd("PRESENT_STATE"), Delay(1000)>>
    IN  IF ~AnyCommon(PresentState(hw, s.time), mask)
        THEN [s EXCEPT !.log = rd, !.done = TRUE]
        ELSE IF s.time >= s.cmd_timeout
        THEN IF 2 * s.cmd_timeout <= CMD_MAX_TIMEOUT
             THEN [s EXCEPT !.cmd_timeout = s.cmd_timeout + s.cmd_timeout,
                            !.time = s.time + 1,
                            !.log = rd \o <<Wr("NORMAL_INT_STAT", 65535)>>]
             ELSE [s EXCEPT !.log = rd, !.done = TRUE, !.expired = TRUE]
        ELSE [s EXCEPT !.time = s.time + 1, !.log = rd]

\* one iteration of the inhibit wait, cmd.rs:103-120.  s.time is the loop
\* counter, which is also the number of present-state reads done so far.
InhibitStep(mask, hw, s) ==
    LET rd == s.log \o <<Rd("PRESENT_STATE")>>
    IN  IF ~AnyCommon(PresentState(hw, s.time), mask)
        THEN [s EXCEPT !.log = rd, !.done = TRUE]
        ELSE IF s.time >= s.cmd_timeout
        THEN IF 2 * s.cmd_timeout <= CMD_MAX_TIMEOUT
             THEN [s EXCEPT !.cmd_timeout = s.cmd_timeout + s.cmd_timeout,
                            !.time = s.time + 1,
                            !.log = rd \o <<Wr("NORMAL_INT_STAT", 65535),
                                            Delay(1000)>>]
             ELSE [s EXCEPT !.log = rd, !.done = TRUE, !.expired = TRUE]
        ELSE [s EXCEPT !.time = s.time + 1, !.log = rd \o <<Delay(1000)>>]

\* the loop: InhibitStep repeated until it leaves the loop
RECURSIVE InhibitLoop(_, _, _, _)
InhibitLoop(mask, hw, s, n) ==
    IF s.done \/ n = 0 THEN s
    ELSE IF n = 1 THEN InhibitStep(mask, hw, s)
    ELSE InhibitLoop(mask, hw, InhibitLoop(mask, hw, s, n \div 2),
                     n - (n \div 2))

\* cmd.rs:88, 101-120
InhibitWait(cmd, hw) ==
    InhibitLoop(InhibitMask(cmd), hw,
                [time |-> 0, cmd_timeout |-> CMD_DEFAULT_TIMEOUT,
                 log |-> <<>>, done |-> FALSE, expired |-> FALSE],
                LoopFuel)

\* the transfer mode, cmd.rs:152-159
XferMode(cmd) ==
    EMMC_TRNS_BLK_CNT_EN
    + (IF cmd.block_count > 1 THEN EMMC_TRNS_MULTI ELSE 0)
    + (IF cmd.data_dir_read THEN EMMC_TRNS_READ ELSE 0)

\* the register programming without the buffer check
Program_Unchecked(cmd, buf) ==
    [res |-> "Ok",
     log |-> <<Wr("NORMAL_INT_STAT", 65535), Wr("ERROR_INT_STAT", 65535),
               Wr("ARGUMENT", cmd.arg)>>
             \o (IF cmd.data_present
                 THEN <<Wr("TIMEOUT_CONTROL", 14),
                        Wr("BLOCK_SIZE", cmd.block_size),
                        Wr("BLOCK_COUNT", cmd.block_count),
                        Wr("XFER_MODE", XferMode(cmd))>>
                 ELSE IF Test(cmd.resp_type, MMC_RSP_BUSY)
                 THEN <<Wr("TIMEOUT_CONTROL", 14)>>
                 ELSE <<>>)]

\* interrupt clearing, argument, data registers and buffer check,
\* cmd.rs:122-190
Program(cmd, buf) ==
    LET base == <<Wr("NORMAL_INT_STAT", 65535), Wr("ERROR_INT_STAT", 65535),
                  Wr("ARGUMENT", cmd.arg)>>
        regs == <<Wr("TIMEOUT_CONTROL", 14),
                  Wr("BLOCK_SIZE", cmd.block_size),
                  Wr("BLOCK_COUNT", cmd.block_count),
                  Wr("XFER_MODE", XferMode(cmd))>>
    IN  IF cmd.data_present
        THEN IF buf.kind = "None"
             THEN [res |-> "InvalidArgument", log |-> base \o regs]
             ELSE IF buf.kind = "Read" /\ cmd.data_dir_read
             THEN [res |-> "Ok", log |-> base \o regs]
             ELSE IF buf.kind = "Write" /\ ~cmd.data_dir_read
             THEN [res |-> "Ok",
                   log |-> base \o regs \o
                           (IF cmd.block_count = 1
                            THEN <<Push(0, buf.len)>> ELSE <<>>)]
             ELSE [res |-> "InvalidArgument", log |-> base \o regs]
        ELSE IF Test(cmd.resp_type, MMC_RSP_BUSY)
        THEN [res |-> "Ok", log |-> base \o <<Wr("TIMEOUT_CONTROL", 14)>>]
        ELSE [res |-> "Ok", log |-> base]

\* the interrupt bits the completion wait needs, cmd.rs:135-140
IntMask(cmd) ==
    EMMC_INT_RESPONSE
    + (IF cmd.data_present /\ Test(cmd.resp_type, MMC_RSP_BUSY)
       THEN EMMC_INT_DATA_END ELSE 0)

\* the command register value, cmd.rs:193-216
CommandReg(cmd) ==
    cmd.opcode * 256
    + (IF Test(cmd.resp_type, MMC_RSP_PRESENT)
       THEN IF Test(cmd.resp_type, MMC_RSP_136) THEN EMMC_CMD_RESP_LONG
            ELSE IF Test(cmd.resp_type, MMC_RSP_BUSY)
                 THEN EMMC_CMD_RESP_SHORT_BUSY
                 ELSE EMMC_CMD_RESP_SHORT
       ELSE 0)
    + (IF Test(cmd.resp_type, MMC_RSP_CRC) THEN EMMC_CMD_CRC ELSE 0)
    + (IF Test(cmd.resp_type, MMC_RSP_OPCODE) THEN EMMC_CMD_INDEX ELSE 0)
    + (IF cmd.data_present THEN EMMC_CMD_DATA ELSE 0)

\* the poll budget without the longer ceiling of the initialization
\* commands
CompletionBudget_Default(cmd) == CMD_DEFAULT_TIMEOUT

\* the poll budget of the completion wait, cmd.rs:225-229
CompletionBudget(cmd) ==
    IF cmd.opcode = MMC_GO_IDLE_STATE \/ cmd.opcode = MMC_SEND_OP_COND
    THEN CMD_MAX_TIMEOUT
    ELSE CMD_DEFAULT_TIMEOUT

\* the completion wait without its budget: it polls until the status shows
\* completion or an error
CompletionStep_NoTimeout(int_mask, hw, s) ==
    LET status == IntStatus(hw.pre, hw.stat, s.k)
        rd == s.log \o <<Rd("NORMAL_INT_STAT")>>
    IN  IF Test(status, EMMC_INT_ERROR) \/ HasAll(status, int_mask)
        THEN [s EXCEPT !.log = rd, !.status = status, !.done = TRUE,
                       !.out = "break"]
        ELSE [s EXCEPT !.log = rd \o <<Delay(100)>>, !.k = s.k + 1]

\* one iteration of the completion wait, cmd.rs:234-257; s.k = status
\* reads done so far
CompletionStep(int_mask, hw, s) ==
    LET status == IntStatus(hw.pre, hw.stat, s.k)
        rd == s.log \o <<Rd("NORMAL_INT_STAT")>>
    IN  IF Test(status, EMMC_INT_ERROR) \/ HasAll(status, int_mask)
        THEN [s EXCEPT !.log = rd, !.status = status, !.done = TRUE,
                       !.out = "break"]
        ELSE IF s.timeout_val <= 0
        THEN [s EXCEPT !.log = rd, !.status = status, !.done = TRUE,
                       !.out = "Timeout"]
        ELSE [s EXCEPT !.log = rd \o <<Delay(100)>>, !.k = s.k + 1,
                       !.timeout_val = s.timeout_val - 1]

RECURSIVE CompletionIter(_, _, _, _)
CompletionIter(int_mask, hw, s, n) ==
    IF s.done \/ n = 0 THEN s
    ELSE IF n = 1 THEN CompletionStep(int_mask, hw, s)
    ELSE CompletionIter(int_mask, hw, CompletionIter(int_mask, hw, s, n \div 2),
                        n - (n \div 2))

CompletionLoop(int_mask, hw, timeout_val) ==
    CompletionIter(int_mask, hw,
                   [k |-> 0, timeout_val |-> timeout_val, log |-> <<>>,
                    status |-> 0, done |-> FALSE, out |-> "running"],
                   LoopFuel)

\* one iteration of the polling loop shared by reset_cmd / reset_data
\* (cmd.rs:458-465, 475-482) and reset (mod.rs:187-194); s.k = reads done
\* so far, busy = number of reads that still see the reset bit set
ResetStep(busy, s) ==
    LET rd == s.log \o <<Rd("SOFTWARE_RESET")>>
    IN  IF s.k >= busy
        THEN [s EXCEPT !.log = rd, !.done = TRUE, !.res = "Ok"]
        ELSE IF s.timeout = 0
        THEN [s EXCEPT !.log = rd, !.done = TRUE, !.res = "Timeout"]
        ELSE [s EXCEPT !.log = rd \o <<Delay(1000)>>, !.k = s.k + 1,
                       !.timeout = s.timeout - 1]

RECURSIVE ResetIter(_, _, _)
ResetIter(busy, s, n) ==
    IF s.done \/ n = 0 THEN s
    ELSE IF n = 1 THEN ResetStep(busy, s)
    ELSE ResetIter(busy, ResetIter(busy, s, n \div 2), n - (n \div 2))

\* write the reset bits, then poll
ResetPoll(mask, timeout, busy) ==
    LET Polled(s) == [res |-> s.res, log |-> s.log]
    IN  Polled(ResetIter(busy,
                         [k |-> 0, timeout |-> timeout,
                          log |-> <<Wr("SOFTWARE_RESET", mask)>>,
                          done |-> FALSE, res |-> "running"],
                         LoopFuel))

\* cmd.rs:454-468
reset_cmd(hw) == ResetPoll(EMMC_RESET_CMD, 100, hw.rstCmd)

\* cmd.rs:471-485
reset_data(hw) == ResetPoll(EMMC_RESET_DATA, 100, hw.rstDat)

\* EMmcHost::reset, mod.rs:182-197; busy = polls that still see the bits
reset(mask, busy) == ResetPoll(mask, 20, busy)

\* `let v = value;` followed by what uses v
With(value, Body(_)) == Body(value)

\* run b after a, unless a failed (the `?` operator)
Then(a, b) ==
    IF a.res = "Ok" THEN [res |-> b.res, log |-> a.log \o b.log] ELSE a

\* CmdErrorOf with the CRC bit tested before the timeout bit
CmdErrorOf_CrcFirst(err_status) ==
    IF Test(err_status, 2) THEN "Crc"
    ELSE IF Test(err_status, 1) THEN "Timeout"
    ELSE IF Test(err_status, 4) THEN "EndBit"
    ELSE IF Test(err_status, 8) THEN "Index"
    ELSE IF Test(err_status, 16) THEN "DataTimeout"
    ELSE IF Test(err_status, 32) THEN "DataCrc"
    ELSE IF Test(err_status, 64) THEN "DataEndBit"
    ELSE IF Test(err_status, 128) THEN "CurrentLimit"
    ELSE "CommandError"

\* error classification of the command phase, cmd.rs:279-297
CmdErrorOf(err_status) ==
    IF Test(err_status, 1) THEN "Timeout"
    ELSE IF Test(err_status, 2) THEN "Crc"
    ELSE IF Test(err_status, 4) THEN "EndBit"
    ELSE IF Test(err_status, 8) THEN "Index"
    ELSE IF Test(err_status, 16) THEN "DataTimeout"
    ELSE IF Test(err_status, 32) THEN "DataCrc"
    ELSE IF Test(err_status, 64) THEN "DataEndBit"
    ELSE IF Test(err_status, 128) THEN "CurrentLimit"
    ELSE "CommandError"

\* error classification of the data phase, cmd.rs:335-343, 414-422
DataErrorOf(err_status) ==
    IF Test(err_status, 16) THEN "DataTimeout"
    ELSE IF Test(err_status, 32) THEN "DataCrc"
    ELSE IF Test(err_status, 64) THEN "DataEndBit"
    ELSE "DataError"

\* the error branch of the command phase, cmd.rs:264-300
CmdErrorBranch(cmd, hw) ==
    LET rd == [res |-> "Ok", log |-> <<Rd("ERROR_INT_STAT")>>]
        rc == reset_cmd(hw)
        rdat == IF cmd.data_present THEN reset_data(hw)
                ELSE [res |-> "Ok", log |-> <<>>]
    IN  Then(Then(Then(rd, rc), rdat),
             [res |-> CmdErrorOf(hw.err), log |-> <<>>])

\* the data error / data timeout exits, cmd.rs:329-353, 408-432
DataErrorExit(hw) ==
    Then([res |-> "Ok", log |-> <<Rd("ERROR_INT_STAT")>>],
         Then(reset_data(hw), [res |-> DataErrorOf(hw.derr), log |-> <<>>]))

DataTimeoutExit(hw) ==
    Then(reset_data(hw), [res |-> "DataTimeout", log |-> <<>>])

\* one iteration of the wait for the end of the data phase, cmd.rs:312-357
\* (read: onEnd pulls the data) and cmd.rs:397-436 (write); s.k =
\* data-phase status reads done so far
DataEndStep(hw, onEnd, s) ==
    LET status == IntStatus(hw.dpre, hw.dstat, s.k)
        rd == [res |-> "Ok", log |-> s.log \o <<Rd("NORMAL_INT_STAT")>>]
        Exit(e) == [s EXCEPT !.done = TRUE, !.res = e.res, !.log = e.log]
    IN  IF Test(status, EMMC_INT_DATA_END)
        THEN [s EXCEPT !.done = TRUE, !.res = "Ok",
                       !.log = rd.log
                               \o <<Wr("NORMAL_INT_STAT", EMMC_INT_DATA_END)>>
                               \o onEnd]
        ELSE IF Test(status, EMMC_INT_ERROR)
        THEN Exit(Then(rd, DataErrorExit(hw)))
        ELSE IF s.data_timeout <= 0
        THEN Exit(Then(rd, DataTimeoutExit(hw)))
        ELSE [s EXCEPT !.log = rd.log \o <<Delay(100000)>>, !.k = s.k + 1,
                       !.data_timeout = s.data_timeout - 1]

RECURSIVE DataEndIter(_, _, _, _)
DataEndIter(hw, onEnd, s, n) ==
    IF s.done \/ n = 0 THEN s
    ELSE IF n = 1 THEN DataEndStep(hw, onEnd, s)
    ELSE DataEndIter(hw, onEnd, DataEndIter(hw, onEnd, s, n \div 2),
                     n - (n \div 2))

DataEndLoop(hw, onEnd, k) ==
    LET Ended(s) == [res |-> s.res, log |-> s.log]
    IN  Ended(DataEndIter(hw, onEnd,
                          [k |-> k, data_timeout |-> CMD_DEFAULT_TIMEOUT,
                           log |-> <<>>, done |-> FALSE, res |-> "running"],
                          LoopFuel))

\* one iteration of the wait before a block is pushed, cmd.rs:374-383
BufferReadyStep(hw, s) ==
    LET rd == [res |-> "Ok", log |-> s.log \o <<Rd("NORMAL_INT_STAT")>>]
        Exit(e) == [s EXCEPT !.done = TRUE, !.res = e.res, !.log = e.log,
                             !.k = s.k + 1]
    IN  IF IntStatus(hw.dpre, hw.dstat, s.k) # 0
        THEN [s EXCEPT !.done = TRUE, !.res = "Ok", !.log = rd.log,
                       !.k = s.k + 1]
        ELSE IF s.buffer_ready_timeout <= 0
        THEN Exit(Then(rd, DataTimeoutExit(hw)))
        ELSE [s EXCEPT !.log = rd.log \o <<Delay(100)>>, !.k = s.k + 1,
                       !.buffer_ready_timeout = s.buffer_ready_timeout - 1]

RECURSIVE BufferReadyIter(_, _, _)
BufferReadyIter(hw, s, n) ==
    IF s.done \/ n = 0 THEN s
    ELSE IF n = 1 THEN BufferReadyStep(hw, s)
    ELSE BufferReadyIter(hw, BufferReadyIter(hw, s, n \div 2), n - (n \div 2))

\* cmd.rs:372-383
BufferReadyLoop(hw, k) ==
    BufferReadyIter(hw,
                    [k |-> k, buffer_ready_timeout |-> CMD_DEFAULT_TIMEOUT,
                     log |-> <<>>, done |-> FALSE, res |-> "running"],
                    LoopFuel)

\* the block loop of a multi-block write, cmd.rs:366-391; i = block index,
\* k = data-phase status reads done so far
RECURSIVE PushBlocks(_, _, _, _, _)
PushBlocks(cmd, buf, hw, i, k) ==
    IF i >= cmd.block_count
    THEN [res |-> "Ok", log |-> <<>>, k |-> k]
    ELSE LET start == i * cmd.block_size
             end == start + cmd.block_size
             Pushed(w, rest) ==
                 [rest EXCEPT !.log =
                    w.log \o <<Push(start, end)>> \o rest.log]
         IN  IF end <= buf.len
             THEN With(BufferReadyLoop(hw, k), LAMBDA w :
                      IF w.res # "Ok"
                      THEN [res |-> w.res, log |-> w.log, k |-> w.k]
                      ELSE Pushed(w, PushBlocks(cmd, buf, hw, i + 1, w.k)))
             ELSE PushBlocks(cmd, buf, hw, i + 1, k)

\* DataPhase with the block loop started at the second block
DataPhase_SkipFirstBlock(cmd, buf, hw) ==
    IF ~cmd.data_present
    THEN [res |-> "Ok", log |-> <<>>]
    ELSE IF buf.kind = "Read" /\ cmd.data_dir_read
    THEN DataEndLoop(hw, <<Pull(buf.len)>>, 0)
    ELSE IF buf.kind = "Write" /\ ~cmd.data_dir_read
    THEN With(IF cmd.block_count > 1
              THEN PushBlocks(cmd, buf, hw, 1, 0)
              ELSE [res |-> "Ok", log |-> <<>>, k |-> 0],
              LAMBDA p :
                IF p.res # "Ok"
                THEN [res |-> p.res, log |-> p.log]
                ELSE Then([res |-> "Ok", log |-> p.log],
                          DataEndLoop(hw, <<>>, p.k)))
    ELSE [res |-> "InvalidArgument", log |-> <<>>]

\* the data phase, cmd.rs:303-444
DataPhase(cmd, buf, hw) ==
    IF ~cmd.data_present
    THEN [res |-> "Ok", log |-> <<>>]
    ELSE IF buf.kind = "Read" /\ cmd.data_dir_read
    THEN DataEndLoop(hw, <<Pull(buf.len)>>, 0)
    ELSE IF buf.kind = "Write" /\ ~cmd.data_dir_read
    THEN With(IF cmd.block_count > 1
              THEN PushBlocks(cmd, buf, hw, 0, 0)
              ELSE [res |-> "Ok", log |-> <<>>, k |-> 0],
              LAMBDA p :
                IF p.res # "Ok"
                THEN [res |-> p.res, log |-> p.log]
                ELSE Then([res |-> "Ok", log |-> p.log],
                          DataEndLoop(hw, <<>>, p.k)))
    ELSE [res |-> "InvalidArgument", log |-> <<>>]

\* EMmcHost::send_command, cmd.rs:86-451
SendCommand(cmd, buf, hw) ==
    With(InhibitWait(cmd, hw), LAMBDA w :
    With(Program(cmd, buf), LAMBDA p :
      IF p.res # "Ok"
      THEN [res |-> p.res, log |-> w.log \o p.log]
      ELSE
    With(CompletionLoop(IntMask(cmd), hw, CompletionBudget(cmd)), LAMBDA c :
      LET int_mask == IntMask(cmd)
          issued == [res |-> "Ok",
                     log |-> w.log \o p.log
                             \o <<Wr("COMMAND", CommandReg(cmd))>> \o c.log]
      IN  IF c.out = "Timeout"
          THEN [res |-> "Timeout", log |-> issued.log]
          ELSE IF HasAll(c.status, int_mask)
                  /\ ~Test(c.status, EMMC_INT_ERROR)
          THEN Then(issued,
               Then([res |-> "Ok",
                     log |-> <<Wr("NORMAL_INT_STAT", int_mask)>>],
               Then(DataPhase(cmd, buf, hw),
               Then(reset(EMMC_RESET_CMD, hw.rstCmd),
                    reset(EMMC_RESET_DATA, hw.rstDat)))))
          ELSE Then(issued, CmdErrorBranch(cmd, hw)))))

----------------------------------------------------------------------------
(* The card record and the block transfer layer: emmc/block.rs *)

\* Option<EMmcCard>: <<>> is None, <<c>> is Some(c)
None == <<>>
Some(c) == <<c>>

\* (card.state & MMC_STATE_HIGHCAPACITY) != 0
StateHighCapacity(c) == Test(c.state, MMC_STATE_HIGHCAPACITY)

\* is_write_protected, mod.rs:207-210; wp = the write-protect bit of the
\* present-state register at that moment
is_write_protected(wp) == [val |-> wp, log |-> <<Rd("PRESENT_STATE")>>]

\* the address conversion `if card.state & MMC_STATE_HIGHCAPACITY != 0
\* { block_addr } else { block_addr * 512 }`, block.rs:283-287, 330-334,
\* 440-444.  The u32 product wraps, or panics in a build with overflow
\* checks.
Translate_AlwaysBytes(c, block_addr, checks) ==
    LET m == Mul512(block_addr)
    IN  [panic |-> m.overflow /\ checks, addr |-> m.val]

Translate(c, block_addr, checks) ==
    IF StateHighCapacity(c)
    THEN [panic |-> FALSE, addr |-> block_addr]
    ELSE LET m == Mul512(block_addr)
         IN  [panic |-> m.overflow /\ checks, addr |-> m.val]

Fail(e) == [res |-> e, log |-> <<>>]

\* read_block with the card check ahead of the length check
read_block_CardFirst(h, block_addr, len, hw1) ==
    IF h = None THEN Fail("NoCard")
    ELSE IF len # 512 THEN Fail("IoError")
    ELSE SendCommand(with_data(EMmcCommand_new(MMC_READ_SINGLE_BLOCK,
                                               block_addr, MMC_RSP_R1),
                               512, 1, TRUE),
                     ReadBuffer(len), hw1)

\* EMmcHost::read_block, block.rs:175-208
read_block(h, block_addr, len, hw1) ==
    IF len # 512 THEN Fail("IoError")
    ELSE IF h = None THEN Fail("NoCard")
    ELSE SendCommand(with_data(EMmcCommand_new(MMC_READ_SINGLE_BLOCK,
                                               block_addr, MMC_RSP_R1),
                               512, 1, TRUE),
                     ReadBuffer(len), hw1)

\* EMmcHost::write_block, block.rs:262-306
write_block(h, block_addr, len, checks, hw1) ==
    IF len # 512 THEN Fail("IoError")
    ELSE IF h = None THEN Fail("NoCard")
    ELSE LET t == Translate(h[1], block_addr, checks)
         IN  IF t.panic THEN Fail("Panic")
             ELSE SendCommand(with_data(EMmcCommand_new(MMC_WRITE_BLOCK,
                                                        t.addr, MMC_RSP_R1),
                                        512, 1, FALSE),
                              WriteBuffer(len), hw1)

\* EMmcHost::write_blocks, block.rs:309-375
write_blocks(h, block_addr, blocks, len, wp, checks, hw1, hw2) ==
    IF len # blocks * 512 THEN Fail("IoError")
    ELSE IF h = None THEN Fail("NoCard")
    ELSE IF ~h[1].initialized THEN Fail("UnsupportedCard")
    ELSE LET p == is_write_protected(wp)
             t == Translate(h[1], block_addr, checks)
         IN  IF p.val THEN [res |-> "IoError", log |-> p.log]
             ELSE IF t.panic THEN [res |-> "Panic", log |-> p.log]
             ELSE Then([res |-> "Ok", log |-> p.log],
                  Then(SendCommand(
                           with_data(EMmcCommand_new(MMC_WRITE_MULTIPLE_BLOCK,
                                                     t.addr, MMC_RSP_R1),
                                     512, blocks, FALSE),
                           WriteBuffer(len), hw1),
                       SendCommand(EMmcCommand_new(MMC_STOP_TRANSMISSION,
                                                   W(0), MMC_RSP_R1B),
                                   NoBuffer, hw2)))

\* EMmcHost::read_blocks, block.rs:424-481
read_blocks(h, block_addr, blocks, len, checks, hw1, hw2) ==
    IF len # blocks * 512 THEN Fail("IoError")
    ELSE IF h = None THEN Fail("NoCard")
    ELSE IF ~h[1].initialized THEN Fail("UnsupportedCard")
    ELSE LET t == Translate(h[1], block_addr, checks)
         IN  IF t.panic THEN Fail("Panic")
             ELSE Then(SendCommand(
                           with_data(EMmcCommand_new(MMC_READ_MULTIPLE_BLOCK,
                                                     t.addr, MMC_RSP_R1),
                                     512, blocks, TRUE),
                           ReadBuffer(len), hw1),
                       SendCommand(EMmcCommand_new(MMC_STOP_TRANSMISSION,
                                                   W(0), MMC_RSP_R1B),
                                   NoBuffer, hw2))

----------------------------------------------------------------------------
(* Card bring-up: emmc/mod.rs, emmc/cmd.rs:498-630 *)

make_mmc_version(a, b, c) == 2^30 + a * 65536 + b * 256 + c
MMC_VERSION_UNKNOWN == make_mmc_version(0, 0, 0)
MMC_VERSION_1_2 == make_mmc_version(1, 2, 0)
MMC_VERSION_1_4 == make_mmc_version(1, 4, 0)
MMC_VERSION_2_2 == make_mmc_version(2, 2, 0)
MMC_VERSION_3 == make_mmc_version(3, 0, 0)
MMC_VERSION_4 == make_mmc_version(4, 0, 0)
MMC_VERSION_4_1 == make_mmc_version(4, 1, 0)
MMC_VERSION_4_2 == make_mmc_version(4, 2, 0)
MMC_VERSION_4_3 == make_mmc_version(4, 3, 0)
MMC_VERSION_4_41 == make_mmc_version(4, 4, 1)
MMC_VERSION_4_5 == make_mmc_version(4, 5, 0)
MMC_VERSION_5_0 == make_mmc_version(5, 0, 0)
MMC_VERSION_5_1 == make_mmc_version(5, 1, 0)

\* EMmcCard::init, block.rs:69-111 (the fields the model follows)
EMmcCard_init(card_type) ==
    [card_type |-> card_type, rca |-> W(0), ocr |-> W(0), state |-> 0,
     initialized |-> FALSE, high_capacity |-> FALSE,
     version |-> MMC_VERSION_UNKNOWN, timing |-> MMC_TIMING_LEGACY,
     clock |-> 0, bus_width |-> 0, csd |-> <<W(0), W(0), W(0), W(0)>>,
     erase_grp_size |-> 0, part_config |-> 0, card_caps |-> 0,
     dsr |-> [hi |-> 65535, lo |-> 65535],
     capacity_user |-> <<0, 0, 0, 0>>]

\* A bring-up in progress: the card being filled in, the result so far
\* ("Ok" while running), the register accesses so far and the number of
\* commands sent so far.
Start(c) == [card |-> c, res |-> "Ok", log |-> <<>>, n |-> 0]

\* the hardware script of the n-th command of a bring-up
HwAt(sc, n) == IF n \in sc.bad THEN sc.badHw ELSE GoodHw

\* self.send_command(&cmd, buffer)?
Cmd(x, cmd, buf, sc) ==
    IF x.res # "Ok" THEN x
    ELSE LET Sent(r) ==
                 [x EXCEPT !.res = r.res, !.log = x.log \o r.log,
                           !.n = x.n + 1]
         IN  Sent(SendCommand(cmd, buf, HwAt(sc, x.n)))

\* a step that cannot fail: f is the card after it, l its register accesses
Do(x, f, l) ==
    IF x.res # "Ok" THEN x ELSE [x EXCEPT !.card = f, !.log = x.log \o l]

\* a step that cannot fail and leaves the card alone: l is its register
\* accesses
Access(x, l) == Do(x, x.card, l)

\* return Err(e)
Raise(x, e) == IF x.res # "Ok" THEN x ELSE [x EXCEPT !.res = e]

\* mmc_go_idle, cmd.rs:499-508
mmc_go_idle(x, sc) ==
    Access(Cmd(x, EMmcCommand_new(MMC_GO_IDLE_STATE, W(0), MMC_RSP_NONE),
               NoBuffer, sc),
           <<Delay(10000)>>)

\* the OCR bits, cmd.rs:527-530
ocr_hcs == [hi |-> 16384, lo |-> 0]
ocr_busy == [hi |-> 32768, lo |-> 0]
ocr_voltage_mask == [hi |-> 127, lo |-> 65408]
ocr_access_mode == [hi |-> 24576, lo |-> 0]

\* the R3 response to the j-th SEND_OP_COND retry (j = 0 for the first
\* retry): sc.ocrLater lists the answers of the retries, the last one
\* standing for all that follow, and an empty list repeats the first
\* answer sc.ocr; the card reports ready from retry sc.ocrBusyAfter on
OcrResponse(sc, j) ==
    LET answer == IF sc.ocrLater = <<>> THEN sc.ocr
                  ELSE IF j + 1 <= Len(sc.ocrLater) THEN sc.ocrLater[j + 1]
                  ELSE sc.ocrLater[Len(sc.ocrLater)]
    IN  IF j >= sc.ocrBusyAfter THEN Or32(answer, ocr_busy) ELSE answer

\* the retry argument without the card's access-mode bits
OpCondArg_VoltagesOnly(voltages, card_ocr) ==
    Or32(ocr_hcs, And32(voltages, And32(card_ocr, ocr_voltage_mask)))

\* the argument of the retries, cmd.rs:538-539
OpCondArg(voltages, card_ocr) ==
    Or32(Or32(ocr_hcs, And32(voltages, And32(card_ocr, ocr_voltage_mask))),
         And32(card_ocr, ocr_access_mode))

\* the retry loop with one retry more: `retry >= 0` for `retry > 0`
OpCondStep_OneMore(sc, cmd_arg, s) ==
    LET resp == OcrResponse(sc, s.j)
        busy == And32(resp, ocr_busy) # W(0)
        hcs == And32(resp, ocr_hcs) # W(0)
        Answered(c) ==
            IF busy /\ hcs
            THEN [c EXCEPT !.ocr = resp,
                           !.card_type = "MmcHc",
                           !.state = BitOr(c.state, MMC_STATE_HIGHCAPACITY)]
            ELSE [c EXCEPT !.ocr = resp]
        Sent(a) ==
            IF a.res # "Ok"
            THEN [s EXCEPT !.x = a, !.done = TRUE]
            ELSE [s EXCEPT
                    !.x = Do(a, Answered(a.card),
                             <<Rd("RESPONSE")>>
                             \o (IF busy THEN <<>> ELSE <<Delay(1000)>>)),
                    !.ready = busy,
                    !.retry = IF busy THEN s.retry ELSE s.retry - 1,
                    !.j = s.j + 1]
    IN  IF ~(s.retry >= 0 /\ ~s.ready) \/ s.x.res # "Ok"
        THEN [s EXCEPT !.done = TRUE]
        ELSE Sent(Cmd(s.x, EMmcCommand_new(MMC_SEND_OP_COND, cmd_arg,
                                           MMC_RSP_R3), NoBuffer, sc))

\* one iteration of the retry loop, cmd.rs:545-573; s.x = the bring-up,
\* s.j = iterations done
OpCondStep(sc, cmd_arg, s) ==
    LET resp == OcrResponse(sc, s.j)
        busy == And32(resp, ocr_busy) # W(0)
        hcs == And32(resp, ocr_hcs) # W(0)
        Answered(c) ==
            IF busy /\ hcs
            THEN [c EXCEPT !.ocr = resp,
                           !.card_type = "MmcHc",
                           !.state = BitOr(c.state, MMC_STATE_HIGHCAPACITY)]
            ELSE [c EXCEPT !.ocr = resp]
        Sent(a) ==
            IF a.res # "Ok"
            THEN [s EXCEPT !.x = a, !.done = TRUE]
            ELSE [s EXCEPT
                    !.x = Do(a, Answered(a.card),
                             <<Rd("RESPONSE")>>
                             \o (IF busy THEN <<>> ELSE <<Delay(1000)>>)),
                    !.ready = busy,
                    !.retry = IF busy THEN s.retry ELSE s.retry - 1,
                    !.j = s.j + 1]
    IN  IF ~(s.retry > 0 /\ ~s.ready) \/ s.x.res # "Ok"
        THEN [s EXCEPT !.done = TRUE]
        ELSE Sent(Cmd(s.x, EMmcCommand_new(MMC_SEND_OP_COND, cmd_arg,
                                           MMC_RSP_R3), NoBuffer, sc))

RECURSIVE OpCondIter(_, _, _, _)
OpCondIter(sc, cmd_arg, s, n) ==
    IF s.done \/ n = 0 THEN s
    ELSE IF n = 1 THEN OpCondStep(sc, cmd_arg, s)
    ELSE OpCondIter(sc, cmd_arg, OpCondIter(sc, cmd_arg, s, n \div 2),
                    n - (n \div 2))

\* mmc_send_op_cond, cmd.rs:511-588
mmc_send_op_cond(x, sc, voltages, ocr, retry) ==
    LET FirstAnswer(a) ==
            Do(a, [a.card EXCEPT !.ocr = sc.ocr],
               <<Delay(10000), Rd("RESPONSE")>>)
        Polled(s) ==
            IF s.x.res # "Ok" THEN s.x
            ELSE IF ~s.ready THEN Raise(s.x, "UnsupportedCard")
            ELSE Access(s.x, <<Delay(1000)>>)
    IN  With(FirstAnswer(Cmd(x, EMmcCommand_new(MMC_SEND_OP_COND, ocr,
                                                MMC_RSP_R3), NoBuffer, sc)),
             LAMBDA b :
               Polled(OpCondIter(sc, OpCondArg(voltages, b.card.ocr),
                                 [x |-> b, retry |-> retry, ready |-> FALSE,
                                  j |-> 0, done |-> FALSE], LoopFuel)))

\* ALL_SEND_CID sent whatever mmc_send_op_cond returned
mmc_all_send_cid_Unconditional(x, sc) ==
    Access(Cmd([x EXCEPT !.res = "Ok"],
               EMmcCommand_new(MMC_ALL_SEND_CID, W(0), MMC_RSP_R2),
               NoBuffer, sc),
           <<Rd("RESPONSE")>>)

\* mmc_all_send_cid, cmd.rs:591-601
mmc_all_send_cid(x, sc) ==
    Access(Cmd(x, EMmcCommand_new(MMC_ALL_SEND_CID, W(0), MMC_RSP_R2),
               NoBuffer, sc),
           <<Rd("RESPONSE")>>)

\* mmc_set_relative_addr, cmd.rs:604-614
mmc_set_relative_addr(x, sc) ==
    Cmd(x, EMmcCommand_new(MMC_SET_RELATIVE_ADDR, Shl16(x.card.rca),
                           MMC_RSP_R1), NoBuffer, sc)

\* mmc_send_csd, cmd.rs:617-630; sc.csd is the as_r2 view of the response
mmc_send_csd(x, sc) ==
    LET Answered(a) == Do(a, [a.card EXCEPT !.csd = sc.csd], <<Rd("RESPONSE")>>)
    IN  Answered(Cmd(x, EMmcCommand_new(MMC_SEND_CSD, Shl16(x.card.rca),
                                        MMC_RSP_R2), NoBuffer, sc))

\* the version table, mod.rs:243-255
VersionOfCsd(c) ==
    LET csd_version == (c.csd[1].hi \div 1024) % 16
    IN  IF c.version # MMC_VERSION_UNKNOWN THEN c.version
        ELSE IF csd_version = 0 THEN MMC_VERSION_1_2
        ELSE IF csd_version = 1 THEN MMC_VERSION_1_4
        ELSE IF csd_version = 2 THEN MMC_VERSION_2_2
        ELSE IF csd_version = 3 THEN MMC_VERSION_3
        ELSE IF csd_version = 4 THEN MMC_VERSION_4
        ELSE MMC_VERSION_1_2

\* sdhci_set_ios: the controller is reprogrammed from the card's bus
\* width, timing and clock
Ios(c) == [k |-> "ios", r |-> "-", v |-> <<c.bus_width, c.timing, c.clock>>]

\* mmc_set_bus_width, mod.rs:955-961
mmc_set_bus_width(x, width) ==
    LET c == [x.card EXCEPT !.bus_width = width] IN Do(x, c, <<Ios(c)>>)

\* mmc_set_timing, mod.rs:963-968
mmc_set_timing(x, timing) ==
    LET c == [x.card EXCEPT !.timing = timing] IN Do(x, c, <<Ios(c)>>)

\* mmc_set_clock, mod.rs:970-975
mmc_set_clock(x, clk) ==
    LET c == [x.card EXCEPT !.clock = clk] IN Do(x, c, <<Ios(c)>>)

\* mmc_send_ext_csd: SEND_EXT_CSD with a 512-byte read
mmc_send_ext_csd(x, sc) ==
    Cmd(x, with_data(EMmcCommand_new(MMC_SEND_EXT_CSD, W(0), MMC_RSP_R1),
                     512, 1, TRUE), ReadBuffer(512), sc)

\* mmc_poll_for_busy: the status poll that follows a SWITCH
mmc_poll_for_busy(x, sc, send_status) ==
    IF send_status
    THEN Cmd(x, EMmcCommand_new(MMC_SEND_STATUS, Shl16(x.card.rca),
                                MMC_RSP_R1), NoBuffer, sc)
    ELSE Access(x, <<Delay(1000)>>)

\* the argument of SWITCH, mod.rs:980-981
SwitchArg(index, value) ==
    [hi |-> MMC_SWITCH_MODE_WRITE_BYTE * 256 + index, lo |-> value * 256]

\* a failed attempt that the caller does not propagate
Retry(a) == [a EXCEPT !.res = "Ok"]

\* the retry loop of mmc_switch, mod.rs:983-997: a is the attempt just
\* made, retries the attempts left before it
RECURSIVE SwitchLoop(_, _, _, _, _)
SwitchLoop(a, sc, cmd, send_status, retries) ==
    IF a.res = "Ok" THEN mmc_poll_for_busy(a, sc, send_status)
    ELSE IF retries - 1 <= 0 THEN [a EXCEPT !.res = "Timeout"]
    ELSE SwitchLoop(Cmd(Retry(a), cmd, NoBuffer, sc), sc, cmd, send_status,
                    retries - 1)

\* mmc_switch, mod.rs:977-1000
mmc_switch(x, sc, index, value, send_status) ==
    LET cmd == EMmcCommand_new(MMC_SWITCH, SwitchArg(index, value),
                               MMC_RSP_R1B)
    IN  IF x.res # "Ok" THEN x
        ELSE SwitchLoop(Cmd(x, cmd, NoBuffer, sc), sc, cmd, send_status, 3)

\* mmc_select_hs, mod.rs:940-953
mmc_select_hs(x, sc) ==
    mmc_set_timing(mmc_switch(x, sc, EXT_CSD_HS_TIMING, EXT_CSD_TIMING_HS,
                              TRUE),
                   MMC_TIMING_MMC_HS)

\* host_caps after init, mod.rs:128-137
host_caps ==
    BitOr(MMC_MODE_HS + MMC_MODE_HS_52MHZ + MMC_MODE_4BIT, 72)

\* the mask with DDR at 1.8 V taken from the card alone
mmc_select_card_type_CardDdr(ext_csd) ==
    LET card_type == ext_csd.card_type
        t26 == IF AnyCommon(host_caps, MMC_MODE_HS)
                  /\ AnyCommon(card_type, EXT_CSD_CARD_TYPE_26)
               THEN EXT_CSD_CARD_TYPE_26 ELSE 0
        t52 == IF AnyCommon(host_caps, MMC_MODE_HS)
                  /\ AnyCommon(card_type, EXT_CSD_CARD_TYPE_52)
               THEN EXT_CSD_CARD_TYPE_52 ELSE 0
        ddr == IF AnyCommon(card_type, EXT_CSD_CARD_TYPE_DDR_1_8V)
               THEN EXT_CSD_CARD_TYPE_DDR_1_8V ELSE 0
        hs200 == IF AnyCommon(host_caps, MMC_MODE_HS200)
                    /\ AnyCommon(card_type, EXT_CSD_CARD_TYPE_HS200_1_8V)
                 THEN EXT_CSD_CARD_TYPE_HS200_1_8V ELSE 0
        hs400 == IF AnyCommon(host_caps, MMC_MODE_HS400)
                    /\ AnyCommon(host_caps, MMC_MODE_8BIT)
                    /\ AnyCommon(card_type, EXT_CSD_CARD_TYPE_HS400_1_8V)
                 THEN EXT_CSD_CARD_TYPE_HS200_1_8V
                      + EXT_CSD_CARD_TYPE_HS400_1_8V
                 ELSE 0
        a5 == BitOr(BitOr(BitOr(BitOr(t26, t52), ddr), hs200), hs400)
        es == IF AnyCommon(host_caps, MMC_MODE_HS400ES)
                 /\ AnyCommon(host_caps, MMC_MODE_8BIT)
                 /\ ext_csd.strobe_support # 0
                 /\ AnyCommon(a5, EXT_CSD_CARD_TYPE_HS400_1_8V)
              THEN EXT_CSD_CARD_TYPE_HS200_1_8V + EXT_CSD_CARD_TYPE_HS400_1_8V
                   + EXT_CSD_CARD_TYPE_HS400ES
              ELSE 0
    IN  BitOr(a5, es)

\* mmc_select_card_type, mod.rs:896-938
mmc_select_card_type(ext_csd) ==
    LET card_type == ext_csd.card_type
        t26 == IF AnyCommon(host_caps, MMC_MODE_HS)
                  /\ AnyCommon(card_type, EXT_CSD_CARD_TYPE_26)
               THEN EXT_CSD_CARD_TYPE_26 ELSE 0
        t52 == IF AnyCommon(host_caps, MMC_MODE_HS)
                  /\ AnyCommon(card_type, EXT_CSD_CARD_TYPE_52)
               THEN EXT_CSD_CARD_TYPE_52 ELSE 0
        ddr == IF AnyCommon(host_caps, MMC_MODE_DDR_52MHZ)
                  /\ AnyCommon(card_type, EXT_CSD_CARD_TYPE_DDR_1_8V)
               THEN EXT_CSD_CARD_TYPE_DDR_1_8V ELSE 0
        hs200 == IF AnyCommon(host_caps, MMC_MODE_HS200)
                    /\ AnyCommon(card_type, EXT_CSD_CARD_TYPE_HS200_1_8V)
                 THEN EXT_CSD_CARD_TYPE_HS200_1_8V ELSE 0
        hs400 == IF AnyCommon(host_caps, MMC_MODE_HS400)
                    /\ AnyCommon(host_caps, MMC_MODE_8BIT)
                    /\ AnyCommon(card_type, EXT_CSD_CARD_TYPE_HS400_1_8V)
                 THEN EXT_CSD_CARD_TYPE_HS200_1_8V
                      + EXT_CSD_CARD_TYPE_HS400_1_8V
                 ELSE 0
        a5 == BitOr(BitOr(BitOr(BitOr(t26, t52), ddr), hs200), hs400)
        es == IF AnyCommon(host_caps, MMC_MODE_HS400ES)
                 /\ AnyCommon(host_caps, MMC_MODE_8BIT)
                 /\ ext_csd.strobe_support # 0
                 /\ AnyCommon(a5, EXT_CSD_CARD_TYPE_HS400_1_8V)
              THEN EXT_CSD_CARD_TYPE_HS200_1_8V + EXT_CSD_CARD_TYPE_HS400_1_8V
                   + EXT_CSD_CARD_TYPE_HS400ES
              ELSE 0
    IN  BitOr(a5, es)

\* the sector count with byte i (0 = least significant) read differently
BumpByte(w, i) ==
    IF i = 0 THEN [w EXCEPT !.lo = (@ \div 256) * 256 + (((@ % 256) + 1) % 256)]
    ELSE IF i = 1 THEN [w EXCEPT !.lo = (@ + 256) % 65536]
    ELSE IF i = 2
    THEN [w EXCEPT !.hi = (@ \div 256) * 256 + (((@ % 256) + 1) % 256)]
    ELSE [w EXCEPT !.hi = (@ + 256) % 65536]

\* an EXT_CSD copy that differs from ext_csd in one compared byte
Differ(ext_csd, field) ==
    IF field = "partitioning_support"
    THEN [ext_csd EXCEPT !.partitioning_support = (@ + 1) % 256]
    ELSE IF field = "hc_wp_grp_size"
    THEN [ext_csd EXCEPT !.hc_wp_grp_size = (@ + 1) % 256]
    ELSE IF field = "rev" THEN [ext_csd EXCEPT !.rev = (@ + 1) % 256]
    ELSE IF field = "hc_erase_grp_size"
    THEN [ext_csd EXCEPT !.hc_erase_grp_size = (@ + 1) % 256]
    ELSE IF field = "sec_cnt0" THEN [ext_csd EXCEPT !.sec_cnt = BumpByte(@, 0)]
    ELSE IF field = "sec_cnt1" THEN [ext_csd EXCEPT !.sec_cnt = BumpByte(@, 1)]
    ELSE IF field = "sec_cnt2" THEN [ext_csd EXCEPT !.sec_cnt = BumpByte(@, 2)]
    ELSE [ext_csd EXCEPT !.sec_cnt = BumpByte(@, 3)]

\* the EXT_CSD copy that the verification read of a bus width returns: the
\* first copy for the widths of sc.testOk, and a copy with the byte
\* sc.testField changed for the others
TestCsd(sc, bus_width) ==
    IF bus_width \in sc.testOk THEN sc.ext
    ELSE Differ(sc.ext, sc.testField)

\* the comparison without the sector count
SameExtCsd_NoSectorCount(ext_csd, test_csd) ==
    /\ ext_csd.partitioning_support = test_csd.partitioning_support
    /\ ext_csd.hc_wp_grp_size = test_csd.hc_wp_grp_size
    /\ ext_csd.rev = test_csd.rev
    /\ ext_csd.hc_erase_grp_size = test_csd.hc_erase_grp_size

\* the comparison of mod.rs:728-736 and compare_sector_count, mod.rs:758-766
SameExtCsd(ext_csd, test_csd) ==
    /\ ext_csd.partitioning_support = test_csd.partitioning_support
    /\ ext_csd.hc_wp_grp_size = test_csd.hc_wp_grp_size
    /\ ext_csd.rev = test_csd.rev
    /\ ext_csd.hc_erase_grp_size = test_csd.hc_erase_grp_size
    /\ ext_csd.sec_cnt = test_csd.sec_cnt

\* one candidate of mmc_select_bus_width, mod.rs:706-740: the result has
\* ok = TRUE when the width was accepted
TryWidth(x, sc, ext_csd_bits, bus_width) ==
    LET Verified(t) ==
            IF t.res # "Ok" THEN [x |-> Retry(t), ok |-> FALSE]
            ELSE [x |-> t, ok |-> SameExtCsd(sc.ext, TestCsd(sc, bus_width))]
    IN  With(mmc_switch(x, sc, EXT_CSD_BUS_WIDTH, ext_csd_bits, TRUE),
             LAMBDA s :
               IF s.res # "Ok" THEN [x |-> Retry(s), ok |-> FALSE]
               ELSE Verified(mmc_send_ext_csd(
                                 mmc_set_bus_width(s, bus_width), sc)))

\* the candidates in the other order: 4-bit first, then 8-bit
mmc_select_bus_width_FourFirst(x, sc) ==
    LET Tried8(w8) ==
            IF w8.ok THEN [x |-> w8.x, ret |-> MMC_BUS_WIDTH_8BIT]
            ELSE [x |-> Raise(w8.x, "BadMessage"), ret |-> 0]
    IN  IF x.res # "Ok" THEN [x |-> x, ret |-> 0]
        ELSE IF x.card.version < MMC_VERSION_4
                \/ ~AnyCommon(host_caps, MMC_MODE_4BIT + MMC_MODE_8BIT)
        THEN [x |-> x, ret |-> 0]
        ELSE
    With(mmc_send_ext_csd(x, sc), LAMBDA e :
      IF e.res # "Ok" THEN [x |-> e, ret |-> 0]
      ELSE With(TryWidth(e, sc, EXT_CSD_BUS_WIDTH_4, MMC_BUS_WIDTH_4BIT),
                LAMBDA w4 :
                  IF w4.ok THEN [x |-> w4.x, ret |-> MMC_BUS_WIDTH_4BIT]
                  ELSE Tried8(TryWidth(w4.x, sc, EXT_CSD_BUS_WIDTH_8,
                                       MMC_BUS_WIDTH_8BIT))))

\* mmc_select_bus_width, mod.rs:675-744: ret is the accepted width
mmc_select_bus_width(x, sc) ==
    LET Tried4(w4) ==
            IF w4.ok THEN [x |-> w4.x, ret |-> MMC_BUS_WIDTH_4BIT]
            ELSE [x |-> Raise(w4.x, "BadMessage"), ret |-> 0]
    IN  IF x.res # "Ok" THEN [x |-> x, ret |-> 0]
        ELSE IF x.card.version < MMC_VERSION_4
                \/ ~AnyCommon(host_caps, MMC_MODE_4BIT + MMC_MODE_8BIT)
        THEN [x |-> x, ret |-> 0]
        ELSE
    With(mmc_send_ext_csd(x, sc), LAMBDA e :
      IF e.res # "Ok" THEN [x |-> e, ret |-> 0]
      ELSE IF AnyCommon(host_caps, MMC_MODE_8BIT)
      THEN With(TryWidth(e, sc, EXT_CSD_BUS_WIDTH_8, MMC_BUS_WIDTH_8BIT),
                LAMBDA w8 :
                  IF w8.ok THEN [x |-> w8.x, ret |-> MMC_BUS_WIDTH_8BIT]
                  ELSE Tried4(TryWidth(w8.x, sc, EXT_CSD_BUS_WIDTH_4,
                                       MMC_BUS_WIDTH_4BIT)))
      ELSE Tried4(TryWidth(e, sc, EXT_CSD_BUS_WIDTH_4, MMC_BUS_WIDTH_4BIT)))

\* mmc_select_hs200, mod.rs:657-673
mmc_select_hs200(x, sc) ==
    With(mmc_select_bus_width(x, sc), LAMBDA b :
      IF b.x.res # "Ok" \/ ~(b.ret > 0) THEN b.x
      ELSE mmc_set_timing(mmc_switch(b.x, sc, EXT_CSD_HS_TIMING,
                                     EXT_CSD_TIMING_HS200, FALSE),
                          MMC_TIMING_MMC_HS200))

\* sdhci_send_tuning, mod.rs:820-841
sdhci_send_tuning(x, sc, opcode) ==
    LET block_size == IF opcode = MMC_SEND_TUNING_BLOCK_HS200
                         /\ x.card.bus_width = MMC_BUS_WIDTH_8BIT
                      THEN 128 ELSE 64
    IN  Cmd(Access(x, <<Wr("BLOCK_SIZE", 7 * 4096 + block_size),
                        Wr("XFER_MODE", EMMC_TRNS_READ)>>),
            EMmcCommand_new(opcode, W(0), MMC_RSP_R1), NoBuffer, sc)

\* host control 2 as read after the i-th tuning command (i from 1)
TuningCtrl(sc, i) ==
    (IF i >= sc.tuneAfter THEN 0 ELSE MMC_CTRL_EXEC_TUNING)
    + (IF sc.tuned THEN MMC_CTRL_TUNED_CLK ELSE 0)

\* the loop going on after a read that sees the execute-tuning bit cleared
\* without the tuned-clock bit
TuningStep_RetryUntuned(sc, opcode, s) ==
    LET ctrl == TuningCtrl(sc, s.i + 1)
        Sent(a) ==
            IF a.res # "Ok" THEN [s EXCEPT !.x = a, !.done = TRUE]
            ELSE IF ~Test(ctrl, MMC_CTRL_EXEC_TUNING)
                    /\ Test(ctrl, MMC_CTRL_TUNED_CLK)
            THEN [s EXCEPT !.x = Access(a, <<Rd("HOST_CTRL2")>>),
                           !.done = TRUE, !.ok = TRUE]
            ELSE [s EXCEPT !.x = Access(a, <<Rd("HOST_CTRL2")>>),
                           !.i = s.i + 1]
    IN  IF s.i >= MAX_TUNING_LOOP THEN [s EXCEPT !.done = TRUE]
        ELSE Sent(sdhci_send_tuning(s.x, sc, opcode))

\* one iteration of the tuning loop, mod.rs:799-813
TuningStep(sc, opcode, s) ==
    LET ctrl == TuningCtrl(sc, s.i + 1)
        Sent(a) ==
            IF a.res # "Ok" THEN [s EXCEPT !.x = a, !.done = TRUE]
            ELSE IF ~Test(ctrl, MMC_CTRL_EXEC_TUNING)
            THEN [s EXCEPT !.x = Access(a, <<Rd("HOST_CTRL2")>>),
                           !.done = TRUE,
                           !.ok = Test(ctrl, MMC_CTRL_TUNED_CLK)]
            ELSE [s EXCEPT !.x = Access(a, <<Rd("HOST_CTRL2")>>),
                           !.i = s.i + 1]
    IN  IF s.i >= MAX_TUNING_LOOP THEN [s EXCEPT !.done = TRUE]
        ELSE Sent(sdhci_send_tuning(s.x, sc, opcode))

RECURSIVE TuningIter(_, _, _, _)
TuningIter(sc, opcode, s, n) ==
    IF s.done \/ n = 0 THEN s
    ELSE IF n = 1 THEN TuningStep(sc, opcode, s)
    ELSE TuningIter(sc, opcode, TuningIter(sc, opcode, s, n \div 2),
                    n - (n \div 2))

\* __sdhci_execute_tuning, mod.rs:797-817
sdhci_execute_tuning(x, sc, opcode) ==
    LET Tuned(s) ==
            IF s.x.res # "Ok" THEN s.x
            ELSE IF s.ok THEN s.x
            ELSE Raise(s.x, "Timeout")
    IN  Tuned(TuningIter(sc, opcode,
                         [x |-> x, i |-> 0, ok |-> FALSE, done |-> FALSE],
                         LoopFuel))

\* mmc_hs200_tuning, mod.rs:768-795
mmc_hs200_tuning(x, sc) ==
    IF x.res # "Ok" THEN x
    ELSE IF x.card.timing # MMC_TIMING_MMC_HS200
    THEN Raise(x, "InvalidArgument")
    ELSE sdhci_execute_tuning(
             Access(x, <<Rd("HOST_CTRL2"),
                         Wr("HOST_CTRL2", MMC_CTRL_EXEC_TUNING)>>),
             sc, MMC_SEND_TUNING_BLOCK_HS200)

mmc_card_hs(c) ==
    c.timing = MMC_TIMING_MMC_HS \/ c.timing = MMC_TIMING_SD_HS

mmc_card_hs400es(c) == c.timing = MMC_TIMING_MMC_HS400ES

mmc_card_hs200(c) == c.timing = MMC_TIMING_MMC_HS200

\* mmc_set_bus_speed, mod.rs:624-638
mmc_set_bus_speed(x, avail_type) ==
    mmc_set_clock(x, IF mmc_card_hs(x.card)
                     THEN (IF AnyCommon(avail_type, EXT_CSD_CARD_TYPE_52)
                           THEN MMC_HIGH_52_MAX_DTR
                           ELSE MMC_HIGH_26_MAX_DTR)
                     ELSE IF mmc_card_hs200(x.card) THEN MMC_HS200_MAX_DTR
                     ELSE 0)

EXT_CSD_CARD_TYPE_HS200 ==
    EXT_CSD_CARD_TYPE_HS200_1_8V + EXT_CSD_CARD_TYPE_HS200_1_2V
EXT_CSD_CARD_TYPE_HS == EXT_CSD_CARD_TYPE_26 + EXT_CSD_CARD_TYPE_52
EXT_CSD_CARD_TYPE_HS400 ==
    EXT_CSD_CARD_TYPE_HS400_1_8V + EXT_CSD_CARD_TYPE_HS400_1_2V
EXT_CSD_CARD_TYPE_DDR_52 ==
    EXT_CSD_CARD_TYPE_DDR_1_8V + EXT_CSD_CARD_TYPE_DDR_1_2V

\* mmc_change_freq, mod.rs:560-622
mmc_change_freq(x, sc) ==
    LET avail_type == mmc_select_card_type(sc.ext)
        Tuned(sp, tun) ==
            IF AnyCommon(avail_type, EXT_CSD_CARD_TYPE_HS400)
               /\ sp.card.bus_width = MMC_BUS_WIDTH_8BIT
            THEN [mmc_set_bus_speed(Retry(tun), avail_type)
                    EXCEPT !.res = tun.res]
            ELSE tun
        Width(bw) ==
            IF bw.x.res # "Ok" THEN bw.x
            ELSE IF ~(bw.ret > 0) THEN Raise(bw.x, "BusWidth")
            ELSE IF AnyCommon(avail_type, EXT_CSD_CARD_TYPE_DDR_52)
            THEN Raise(bw.x, "panic")
            ELSE bw.x
    IN  IF x.res # "Ok" THEN x
        ELSE
    With(Do(x, [x.card EXCEPT !.card_caps = 0], <<>>), LAMBDA c0 :
      IF c0.card.version < MMC_VERSION_4 THEN c0
      ELSE
    With(mmc_send_ext_csd(
             Do(c0, [c0.card EXCEPT
                       !.card_caps = MMC_MODE_4BIT + MMC_MODE_8BIT], <<>>),
             sc), LAMBDA e :
    With(mmc_set_bus_speed(
             IF AnyCommon(avail_type, EXT_CSD_CARD_TYPE_HS200)
             THEN mmc_select_hs200(e, sc)
             ELSE IF AnyCommon(avail_type, EXT_CSD_CARD_TYPE_HS)
             THEN mmc_select_hs(e, sc)
             ELSE Raise(e, "InvalidArgument"),
             avail_type), LAMBDA sp :
      IF sp.res # "Ok" THEN sp
      ELSE IF mmc_card_hs200(sp.card)
      THEN Tuned(sp, mmc_hs200_tuning(sp, sc))
      ELSE IF ~mmc_card_hs400es(sp.card)
      THEN Width(mmc_select_bus_width(sp, sc))
      ELSE sp)))

\* the version an EXT_CSD revision stands for, mod.rs:363-372; 0 stands for
\* the panic of the last arm
VersionOfRev(rev) ==
    IF rev = 1 THEN MMC_VERSION_4_1
    ELSE IF rev = 2 THEN MMC_VERSION_4_2
    ELSE IF rev = 3 THEN MMC_VERSION_4_3
    ELSE IF rev = 5 THEN MMC_VERSION_4_41
    ELSE IF rev = 6 THEN MMC_VERSION_4_5
    ELSE IF rev = 7 THEN MMC_VERSION_5_0
    ELSE IF rev = 8 THEN MMC_VERSION_5_1
    ELSE 0

\* has_parts, mod.rs:405-464
HasParts(ext_csd) ==
    \/ ext_csd.gp_size_mult # 0
    \/ AnyCommon(ext_csd.partition_setting,
                 EXT_CSD_PARTITION_SETTING_COMPLETED)
    \/ /\ AnyCommon(ext_csd.partitioning_support, PART_SUPPORT)
       /\ AnyCommon(ext_csd.partitions_attribute, PART_ENH_ATTRIB)

\* the erase group size, mod.rs:478-496
EraseGrpSize(ext_csd, csd, has_parts) ==
    IF has_parts \/ ext_csd.erase_group_def % 2 = 1
    THEN ext_csd.hc_erase_grp_size * 1024
    ELSE (((csd[3].lo \div 1024) % 32) + 1) * (((csd[3].lo \div 32) % 32) + 1)

\* SEC_CNT sectors in bytes, mod.rs:353-357 and 484-489
SecCapacity(ext_csd) == U64Mul(U64OfW(ext_csd.sec_cnt), MMC_MAX_BLOCK_LEN)

\* the version >= 4 part of init_card, mod.rs:334-507
ExtendedParameters(x, sc) ==
    LET ext_csd == sc.ext
        has_parts == HasParts(ext_csd)
        Version(e) ==
            IF ext_csd.rev >= 2
            THEN (IF VersionOfRev(ext_csd.rev) = 0 THEN Raise(e, "panic")
                  ELSE Do(e, [e.card EXCEPT
                                !.version = VersionOfRev(ext_csd.rev),
                                !.capacity_user =
                                    IF U64Over2G(SecCapacity(ext_csd))
                                    THEN SecCapacity(ext_csd)
                                    ELSE e.card.capacity_user], <<>>))
            ELSE e
        PartConfig(v) ==
            IF AnyCommon(ext_csd.partitioning_support, PART_SUPPORT)
               \/ ext_csd.boot_mult # 0
            THEN Do(v, [v.card EXCEPT !.part_config = ext_csd.part_conf], <<>>)
            ELSE v
        Switched(pc, sw) ==
            IF pc.res = "Ok" /\ sw.res # "Ok"
            THEN [sw EXCEPT !.res = "CommandError"] ELSE sw
        part_completed ==
            AnyCommon(ext_csd.partition_setting,
                      EXT_CSD_PARTITION_SETTING_COMPLETED)
        EraseGroup(eg) ==
            Do(eg, [eg.card EXCEPT
                      !.erase_grp_size = EraseGrpSize(ext_csd, eg.card.csd,
                                                      has_parts),
                      !.capacity_user =
                          IF (has_parts \/ ext_csd.erase_group_def % 2 = 1)
                             /\ eg.card.high_capacity /\ part_completed
                          THEN SecCapacity(ext_csd)
                          ELSE eg.card.capacity_user], <<>>)
    IN  EraseGroup(
            With(PartConfig(Version(
                     mmc_send_ext_csd(mmc_set_clock(mmc_select_hs(x, sc),
                                                    MMC_HIGH_52_MAX_DTR),
                                      sc))),
                 LAMBDA pc :
                   IF has_parts
                   THEN Switched(pc, mmc_switch(pc, sc,
                                                EXT_CSD_ERASE_GROUP_DEF, 1,
                                                TRUE))
                   ELSE pc))

\* capacity_user from the CSD, mod.rs:258-285: csd[1] of the code is csd[2]
\* here.  The factor is the READ_BL_LEN field as it stands in the CSD.
CapacityOfCsd(csd, high_capacity) ==
    LET read_bl_len == csd[2].hi % 16
        csize == IF high_capacity
                 THEN (csd[2].lo % 64) * 65536 + csd[3].hi
                 ELSE (csd[2].lo % 1024) * 4 + (csd[3].hi \div 16384)
        cmult == IF high_capacity THEN 8
                 ELSE (csd[3].hi % 4) * 2 + (csd[3].lo \div 32768)
    IN  U64Mul(U64Mul(U64Of(csize + 1), 2 ^ (cmult + 2)), read_bl_len)

\* the gate of the extended parameters without the version test
is_version_4_plus_Always(c) == TRUE

\* is_version_4_plus, mod.rs:329-332
is_version_4_plus(c) == c.version >= MMC_VERSION_4

\* init_card, mod.rs:213-521
init_card(x, sc, voltages) ==
    LET Rca(o) ==
            Do(o, [o.card EXCEPT
                     !.rca = W(1),
                     !.high_capacity = And32(o.card.ocr, ocr_hcs) = ocr_hcs],
               <<>>)
        Version(csd) ==
            Do(csd, [csd.card EXCEPT
                       !.version = VersionOfCsd(csd.card),
                       !.capacity_user =
                           CapacityOfCsd(csd.card.csd,
                                         csd.card.high_capacity)], <<>>)
        Defaults(cmd7) ==
            Do(cmd7, [cmd7.card EXCEPT !.erase_grp_size = 1,
                                       !.part_config = MMCPART_NOAVAILABLE],
               <<Rd("RESPONSE")>>)
        Initialized(cf) == Do(cf, [cf.card EXCEPT !.initialized = TRUE], <<>>)
    IN
    With(Version(
             mmc_send_csd(
                 mmc_set_relative_addr(
                     mmc_all_send_cid(
                         Rca(mmc_send_op_cond(mmc_go_idle(x, sc), sc,
                                              voltages, W(0),
                                              OpCondRetries)),
                         sc),
                     sc),
                 sc)), LAMBDA ver :
    With(IF (ver.card.csd[2].lo \div 4096) % 2 # 0
            /\ ver.card.dsr # [hi |-> 65535, lo |-> 65535]
         THEN Cmd(ver, EMmcCommand_new(MMC_SET_DSR, Shl16(ver.card.dsr),
                                       MMC_RSP_NONE), NoBuffer, sc)
         ELSE ver, LAMBDA cmd4 :
    With(Defaults(Cmd(cmd4, EMmcCommand_new(MMC_SELECT_CARD,
                                            Shl16(cmd4.card.rca), MMC_RSP_R1),
                      NoBuffer, sc)), LAMBDA dflt :
      Initialized(mmc_change_freq(
          IF is_version_4_plus(dflt.card)
          THEN ExtendedParameters(dflt, sc) ELSE dflt,
          sc)))))

\* the voltage window of the capabilities, mod.rs:141-152; W(0) when none
Voltages(vdd) ==
    IF vdd = 330 THEN [hi |-> 48, lo |-> 0]
    ELSE IF vdd = 300 THEN [hi |-> 6, lo |-> 0]
    ELSE IF vdd = 180 THEN [hi |-> 0, lo |-> 128]
    ELSE W(0)

\* sdhci_set_power, rockchip.rs:205-237
sdhci_set_power(x, vdd) ==
    LET pwr == IF vdd = 330 THEN EMMC_POWER_330
               ELSE IF vdd = 300 THEN EMMC_POWER_300
               ELSE IF vdd = 180 THEN EMMC_POWER_180 ELSE 0
    IN  IF pwr = 0 THEN Access(x, <<Wr("POWER_CTRL", 0)>>)
        ELSE Access(x, <<Wr("POWER_CTRL", BitOr(pwr, EMMC_POWER_ON)),
                         Delay(1000)>>)

\* EMmcHost::init, mod.rs:82-179
init(sc) ==
    LET Fresh(r) ==
            [Start(EMmcCard_init("Unknown")) EXCEPT !.res = r.res,
                                                    !.log = r.log]
        Capabilities(b) ==
            Access(b, <<Rd("PRESENT_STATE"), Rd("HOST_CNTRL_VER"),
                        Rd("CAPABILITIES1")>>
                      \o (IF sc.spec300 THEN <<Rd("CAPABILITIES2")>>
                          ELSE <<>>))
        ClockBase(c) == IF sc.clockZero THEN Raise(c, "UnsupportedCard") ELSE c
        Vdd(d) == IF sc.vdd = 0 THEN Raise(d, "UnsupportedCard") ELSE d
        Interrupts(f) ==
            Access(f, <<Wr("NORMAL_INT_STAT_EN",
                           EMMC_INT_CMD_MASK + EMMC_INT_DATA_MASK),
                        Wr("SIGNAL_ENABLE", 0)>>)
    IN  init_card(
            mmc_set_timing(
                mmc_set_clock(
                    mmc_set_bus_width(
                        Interrupts(sdhci_set_power(
                            Vdd(ClockBase(Capabilities(Fresh(
                                reset(EMMC_RESET_ALL, sc.rstAll))))),
                            sc.vdd)),
                        1),
                    400000),
                MMC_TIMING_LEGACY),
            sc, Voltages(sc.vdd))

----------------------------------------------------------------------------
(* The SD host: sdhci/mod.rs, sdhci/cmd.rs *)

SD_SEND_RELATIVE_ADDR == 3
SD_SEND_IF_COND == 8
MMC_SET_BLOCKLEN == 16
SD_APP_OP_COND == 41
MMC_APP_CMD == 55
MMC_STATE_PRESENT == 1
SDHCI_CMD_RESP_LONG == 1
SDHCI_CMD_RESP_SHORT == 2
SDHCI_CMD_RESP_SHORT_BUSY == 3
SDHCI_CMD_CRC == 8
SDHCI_CMD_INDEX == 16
SDHCI_CMD_DATA == 32
MMC_RSP_R6 == MMC_RSP_PRESENT + MMC_RSP_CRC + MMC_RSP_OPCODE
MMC_RSP_R7 == MMC_RSP_PRESENT + MMC_RSP_CRC + MMC_RSP_OPCODE

\* SdCommand::new, sdhci/cmd.rs:19-29
SdCommand_new(opcode, arg, resp_type) ==
    [opcode |-> opcode, arg |-> arg, resp_type |-> resp_type,
     data_present |-> FALSE, data_dir_read |-> TRUE,
     block_size |-> 0, block_count |-> 0]

\* the SD command register with busy tested ahead of the response length
SdCommandReg_BusyFirst(cmd) ==
    cmd.opcode * 256
    + (IF Test(cmd.resp_type, MMC_RSP_PRESENT)
       THEN (IF Test(cmd.resp_type, MMC_RSP_BUSY)
             THEN SDHCI_CMD_RESP_SHORT_BUSY
             ELSE IF Test(cmd.resp_type, MMC_RSP_136)
             THEN SDHCI_CMD_RESP_LONG
             ELSE SDHCI_CMD_RESP_SHORT)
       ELSE 0)
    + (IF Test(cmd.resp_type, MMC_RSP_CRC) THEN SDHCI_CMD_CRC ELSE 0)
    + (IF Test(cmd.resp_type, MMC_RSP_OPCODE) THEN SDHCI_CMD_INDEX ELSE 0)
    + (IF cmd.data_present THEN SDHCI_CMD_DATA ELSE 0)

\* the command register value, sdhci/cmd.rs:109-131
SdCommandReg(cmd) ==
    cmd.opcode * 256
    + (IF Test(cmd.resp_type, MMC_RSP_PRESENT)
       THEN (IF Test(cmd.resp_type, MMC_RSP_136) THEN SDHCI_CMD_RESP_LONG
             ELSE IF Test(cmd.resp_type, MMC_RSP_BUSY)
             THEN SDHCI_CMD_RESP_SHORT_BUSY
             ELSE SDHCI_CMD_RESP_SHORT)
       ELSE 0)
    + (IF Test(cmd.resp_type, MMC_RSP_CRC) THEN SDHCI_CMD_CRC ELSE 0)
    + (IF Test(cmd.resp_type, MMC_RSP_OPCODE) THEN SDHCI_CMD_INDEX ELSE 0)
    + (IF cmd.data_present THEN SDHCI_CMD_DATA ELSE 0)

\* SdHost::send_command, sdhci/cmd.rs:72-214, for a command without data.
\* out is what the controller does with it: "Busy" (the inhibit bits never
\* clear), "Silent" (no response and no error ever shows), "Ok", or the
\* error the error bits stand for.
SdSendCommand(cmd, out) ==
    LET prog == <<Wr("SDHCI_INT_STATUS", 0), Wr("SDHCI_ARGUMENT", cmd.arg),
                  Wr("SDHCI_COMMAND", SdCommandReg(cmd))>>
    IN  IF out = "Busy" THEN [res |-> "Timeout", log |-> <<>>]
        ELSE IF out = "Silent" THEN [res |-> "Timeout", log |-> prog]
        ELSE IF out = "Ok"
        THEN [res |-> "Ok", log |-> prog \o <<Wr("SDHCI_INT_STATUS", 1)>>]
        ELSE [res |-> out,
              log |-> prog \o <<Wr("SDHCI_SOFTWARE_RESET", EMMC_RESET_CMD)>>]

\* self.send_command(&cmd)? as the n-th command of a bring-up
SdCmd(x, cmd, sc) ==
    IF x.res # "Ok" THEN x
    ELSE LET Sent(r) ==
                 [x EXCEPT !.res = r.res, !.log = x.log \o r.log,
                           !.n = x.n + 1]
         IN  Sent(SdSendCommand(cmd,
                                IF x.n \in sc.bad THEN sc.err ELSE "Ok"))

\* SdCard::init, sdhci/block.rs:36-58
SdCard_init(card_type) ==
    [card_type |-> card_type, rca |-> W(0), ocr |-> W(0), state |-> 0,
     initialized |-> FALSE, csd_structure |-> 0, block_size |-> 0]

\* one iteration of the ACMD41 loop, sdhci/mod.rs:290-316
SdOpCondStep(sc, s) ==
    IF ~(s.retry > 0 /\ ~s.ready) \/ s.x.res # "Ok"
    THEN [s EXCEPT !.done = TRUE]
    ELSE LET busy == s.j >= sc.readyAfter
             ocr == [hi |-> (IF busy THEN 32768 ELSE 0)
                            + (IF sc.hcs THEN 16384 ELSE 0) + 255,
                     lo |-> 32768]
             Answered(c) ==
                 IF sc.hcs
                 THEN [c EXCEPT !.ocr = ocr, !.card_type = "SdHc",
                                !.state = BitOr(c.state,
                                                MMC_STATE_HIGHCAPACITY)]
                 ELSE [c EXCEPT !.ocr = ocr]
             Sent(b) ==
                 IF b.res # "Ok" THEN [s EXCEPT !.x = b, !.done = TRUE]
                 ELSE IF busy
                 THEN [s EXCEPT !.x = Do(b, Answered(b.card), <<>>),
                                !.ready = TRUE, !.ocr = ocr, !.j = s.j + 1]
                 ELSE [s EXCEPT !.x = b, !.retry = s.retry - 1, !.ocr = ocr,
                                !.j = s.j + 1]
             AppCmd(a) ==
                 SdCmd(a, SdCommand_new(SD_APP_OP_COND, s.ocr, MMC_RSP_R3),
                       sc)
         IN  Sent(AppCmd(SdCmd(s.x, SdCommand_new(MMC_APP_CMD, s.x.card.rca,
                                                  MMC_RSP_R1), sc)))

RECURSIVE SdOpCondIter(_, _, _)
SdOpCondIter(sc, s, n) ==
    IF s.done \/ n = 0 THEN s
    ELSE IF n = 1 THEN SdOpCondStep(sc, s)
    ELSE SdOpCondIter(sc, SdOpCondIter(sc, s, n \div 2), n - (n \div 2))

\* SdHost::init_card, sdhci/mod.rs:263-463.  The card is a local value until
\* the last statement stores it in the host.
sd_init_card(x, sc) ==
    LET IfCond(c8) ==
            IF c8.res = "Ok"
            THEN (IF sc.pattern THEN Do(c8, SdCard_init("SdV2"), <<>>)
                  ELSE Raise(c8, "UnsupportedCard"))
            ELSE Do(Retry(c8), SdCard_init("SdV1"), <<>>)
        GoIdle(c0) ==
            IF c0.res # "Ok" THEN c0
            ELSE IfCond(SdCmd(c0, SdCommand_new(SD_SEND_IF_COND, W(256 + 170),
                                                MMC_RSP_R7), sc))
        OpCond(v) ==
            SdOpCondIter(sc, [x |-> v, retry |-> 100, ready |-> FALSE,
                              ocr |-> [hi |-> 16639, lo |-> 32768],
                              j |-> 0, done |-> FALSE], LoopFuel)
        Ready(l) ==
            IF l.x.res = "Ok" /\ ~l.ready
            THEN Raise(l.x, "UnsupportedCard") ELSE l.x
        Cid(o) ==
            SdCmd(o, SdCommand_new(MMC_ALL_SEND_CID, W(0), MMC_RSP_R2), sc)
        RelativeAddr(c2) ==
            SdCmd(c2, SdCommand_new(SD_SEND_RELATIVE_ADDR, W(0), MMC_RSP_R6),
                  sc)
        Rca(c3) ==
            Do(c3, [c3.card EXCEPT !.rca = [hi |-> sc.rca, lo |-> 0]], <<>>)
        Csd(r) ==
            SdCmd(r, SdCommand_new(MMC_SEND_CSD, r.card.rca, MMC_RSP_R2), sc)
        Structure(c9) ==
            IF sc.csd_structure # 0 /\ sc.csd_structure # 1
            THEN Raise(c9, "panic")
            ELSE IF sc.csd_structure = 0 /\ sc.read_bl_len > 12
            THEN Raise(c9, "panic")
            ELSE Do(c9, [c9.card EXCEPT
                           !.csd_structure = sc.csd_structure,
                           !.block_size = 512], <<>>)
        Select(st) ==
            SdCmd(st, SdCommand_new(MMC_SELECT_CARD, st.card.rca,
                                    MMC_RSP_R1B), sc)
        BlockLen(c7) ==
            SdCmd(c7, SdCommand_new(MMC_SET_BLOCKLEN, W(512), MMC_RSP_R1), sc)
        WriteProtect(c16) == Access(c16, <<Rd("SDHCI_PRESENT_STATE")>>)
        AppCmd(wp) ==
            SdCmd(wp, SdCommand_new(MMC_APP_CMD, wp.card.rca, MMC_RSP_R1), sc)
        Wide(a6) ==
            Access(a6, <<Rd("SDHCI_HOST_CONTROL"),
                         Wr("SDHCI_HOST_CONTROL", 2)>>)
        BusWidth(wp) ==
            IF sc.wp THEN wp
            ELSE Wide(SdCmd(AppCmd(wp), SdCommand_new(6, W(2), MMC_RSP_R1),
                            sc))
        Clock(bw) ==
            IF sc.clk2Ok THEN Access(bw, <<Wr("SDHCI_CLOCK_CONTROL", 0)>>)
            ELSE Raise(bw, "Timeout")
        Initialized(ck) ==
            Do(ck, [ck.card EXCEPT
                      !.initialized = TRUE,
                      !.state = BitOr(ck.card.state, MMC_STATE_PRESENT)],
               <<>>)
        Identified(o) == Csd(Rca(RelativeAddr(Cid(o))))
        Selected(c9) == WriteProtect(BlockLen(Select(Structure(c9))))
    IN  Initialized(Clock(BusWidth(Selected(Identified(Ready(OpCond(
            GoIdle(SdCmd(x, SdCommand_new(MMC_GO_IDLE_STATE, W(0),
                                          MMC_RSP_NONE), sc)))))))))

\* SdHost::init, sdhci/mod.rs:95-143.  old is the host's card before the
\* call; card is the host's card after it.
sd_init(old, sc) ==
    LET Fresh ==
            [card |-> SdCard_init("Unknown"), res |-> "Ok",
             log |-> <<Rd("SDHCI_HOST_VERSION"), Rd("SDHCI_CAPABILITIES"),
                       Rd("SDHCI_CAPABILITIES_1"),
                       Wr("SDHCI_SOFTWARE_RESET", EMMC_RESET_ALL)>>,
             n |-> 0]
        Reset(a) == IF sc.rstOk THEN a ELSE Raise(a, "Timeout")
        Disable(b) ==
            Access(b, <<Wr("SDHCI_INT_ENABLE", 0),
                        Wr("SDHCI_SIGNAL_ENABLE", 0),
                        Wr("SDHCI_CLOCK_CONTROL", 0)>>)
        Clock(c) == IF sc.clkOk THEN c ELSE Raise(c, "Timeout")
        Power(d) ==
            Access(d, <<Wr("SDHCI_POWER_CONTROL", 15),
                        Rd("SDHCI_HOST_CONTROL"),
                        Wr("SDHCI_HOST_CONTROL", 0),
                        Rd("SDHCI_PRESENT_STATE")>>)
        Present(e) == IF sc.present THEN e ELSE Raise(e, "NoCard")
        Stored(g) ==
            [card |-> IF g.res = "Ok" THEN Some(g.card) ELSE old,
             res |-> g.res, log |-> g.log]
    IN  Stored(sd_init_card(Present(Power(Clock(Disable(Reset(Fresh))))),
                            sc))

----------------------------------------------------------------------------
(* The inputs the specifications draw from *)

\* a card and controller that answer every command of a bring-up
BaseExt ==
    [rev |-> 8, card_type |-> 87, strobe_support |-> 0,
     partition_setting |-> 0, partitioning_support |-> 0,
     partitions_attribute |-> 0, gp_size_mult |-> 0, erase_group_def |-> 0,
     hc_erase_grp_size |-> 1, hc_wp_grp_size |-> 1, sec_cnt |-> W(4096),
     boot_mult |-> 0, part_conf |-> 0]

\* csd[0] with the CSD version field (bits 29..26) set to csd_version
CsdOfVersion(csd_version) ==
    <<[hi |-> 32768 + csd_version * 1024 + 15, lo |-> 50],
      [hi |-> 3929, lo |-> 36863], W(65535), W(37376)>>

BaseScript ==
    [rstAll |-> 0, spec300 |-> TRUE, clockZero |-> FALSE, vdd |-> 330,
     bad |-> {}, badHw |-> GoodHw, ocr |-> [hi |-> 16639, lo |-> 32896],
     ocrLater |-> <<>>, ocrBusyAfter |-> 0, csd |-> CsdOfVersion(4),
     ext |-> BaseExt,
     testOk |-> {MMC_BUS_WIDTH_8BIT, MMC_BUS_WIDTH_4BIT},
     testField |-> "sec_cnt0", tuneAfter |-> 1, tuned |-> TRUE]

\* controller behaviours of one command
HwCrc == [GoodHw EXCEPT !.stat = EMMC_INT_ERROR, !.err = 2]
HwSilent == [GoodHw EXCEPT !.stat = 0]
HwBusy == [GoodHw EXCEPT !.cmdBusy = Never]
HwDataCrc == [GoodHw EXCEPT !.dstat = EMMC_INT_ERROR, !.derr = 32]

\* the commands of a bring-up that are made to fail, by position: CMD0,
\* the first SEND_OP_COND retry, SEND_CSD, the first SEND_EXT_CSD, and the
\* tuning block
FailAt == {0, 2, 5, 9, 16}

\* bring-ups the host is taken through: each kind of card, each way the
\* sequence ends early
HostScripts ==
    {BaseScript,
     [BaseScript EXCEPT !.ocr = [hi |-> 255, lo |-> 32896]],
     [BaseScript EXCEPT !.ocr = [hi |-> 255, lo |-> 32896],
                        !.csd = <<[hi |-> 36879, lo |-> 50],
                                  [hi |-> 3930, lo |-> 36000],
                                  [hi |-> 49155, lo |-> 65535], W(37376)>>],
     [BaseScript EXCEPT !.ext.sec_cnt = [hi |-> 1000, lo |-> 0]],
     [BaseScript EXCEPT !.csd = CsdOfVersion(3)],
     [BaseScript EXCEPT !.rstAll = Never],
     [BaseScript EXCEPT !.clockZero = TRUE],
     [BaseScript EXCEPT !.vdd = 0],
     [BaseScript EXCEPT !.ocrBusyAfter = Never],
     [BaseScript EXCEPT !.ocrBusyAfter = 99],
     [BaseScript EXCEPT !.ocrBusyAfter = Never, !.bad = {50},
                        !.badHw = HwCrc],
     [BaseScript EXCEPT !.ext.rev = 4],
     [BaseScript EXCEPT !.ext.card_type = 0],
     [BaseScript EXCEPT !.testOk = {}],
     [BaseScript EXCEPT !.testOk = {MMC_BUS_WIDTH_4BIT}],
     [BaseScript EXCEPT !.bad = {12}, !.badHw = HwCrc],
     [BaseScript EXCEPT !.bad = {12, 13, 14}, !.badHw = HwCrc],
     [BaseScript EXCEPT !.bad = {14}, !.badHw = HwCrc],
     [BaseScript EXCEPT !.tuneAfter = Never],
     [BaseScript EXCEPT !.tuned = FALSE]}
    \cup {[BaseScript EXCEPT !.bad = {i}, !.badHw = HwCrc] : i \in FailAt}
    \cup {[BaseScript EXCEPT !.bad = {0}, !.badHw = hw] :
            hw \in {HwSilent, HwBusy, [HwCrc EXCEPT !.rstCmd = Never]}}

BaseSdScript ==
    [rstOk |-> TRUE, clkOk |-> TRUE, present |-> TRUE, bad |-> {},
     err |-> "Ok", pattern |-> TRUE, readyAfter |-> 0, hcs |-> TRUE,
     rca |-> 4660, csd_structure |-> 1, read_bl_len |-> 9, wp |-> FALSE,
     clk2Ok |-> TRUE]

SdScripts ==
    {BaseSdScript,
     [BaseSdScript EXCEPT !.hcs = FALSE, !.csd_structure = 0],
     [BaseSdScript EXCEPT !.rstOk = FALSE],
     [BaseSdScript EXCEPT !.clkOk = FALSE],
     [BaseSdScript EXCEPT !.present = FALSE],
     [BaseSdScript EXCEPT !.pattern = FALSE],
     [BaseSdScript EXCEPT !.readyAfter = Never],
     [BaseSdScript EXCEPT !.csd_structure = 2],
     [BaseSdScript EXCEPT !.wp = TRUE],
     [BaseSdScript EXCEPT !.clk2Ok = FALSE],
     [BaseSdScript EXCEPT !.bad = {0}, !.err = "Busy"],
     [BaseSdScript EXCEPT !.bad = {5}, !.err = "Crc"]}

\* logical block addresses: a small one, the largest whose byte address
\* fits 32 bits, the smallest whose byte address does not, the largest
Addrs ==
    {W(5), [hi |-> 127, lo |-> 65535], [hi |-> 128, lo |-> 0],
     [hi |-> 65535, lo |-> 65535]}

Counts == 1..MaxBlocks

\* buffer lengths in bytes
Lens == {n * 512 : n \in 1..MaxBlocks}

HwSlow == [GoodHw EXCEPT !.cmdBusy = 2, !.pre = 2, !.dpre = 1]

\* nothing ever changes: the lines stay inhibited, the data phase shows no
\* status and the data reset never completes
HwStuck == [GoodHw EXCEPT !.cmdBusy = Never, !.dstat = 0, !.rstDat = Never]

BlockHw == {GoodHw, HwSlow, HwDataCrc, HwStuck}

StopHw == {GoodHw, HwCrc}

----------------------------------------------------------------------------
(* The host: one action per driver call.  A call runs to its end in one    *)
(* step (the driver is synchronous and takes no lock); op, res and log     *)
(* hold the call, its result and its register accesses until the caller    *)
(* takes the result.                                                        *)

Idle == [name |-> "idle"]

Init ==
    /\ card = None
    /\ sd_card = None
    /\ op = Idle
    /\ res = "-"
    /\ log = <<>>
    /\ overflow_checks \in BOOLEAN

\* the caller takes the result of the last call
Return ==
    /\ op # Idle
    /\ res # "Panic"
    /\ op' = Idle
    /\ res' = "-"
    /\ log' = <<>>
    /\ UNCHANGED <<card, sd_card, overflow_checks>>

\* EMmcHost::init
EMmcInit ==
    /\ op = Idle
    /\ \E sc \in HostScripts :
         LET r == init(sc)
         IN  /\ card' = Some(r.card)
             /\ op' = [name |-> "init", sc |-> sc]
             /\ res' = IF r.res = "panic" THEN "Panic" ELSE r.res
             /\ log' = r.log
    /\ UNCHANGED <<sd_card, overflow_checks>>

\* SdHost::init
SdInit ==
    /\ op = Idle
    /\ \E sc \in SdScripts :
         LET r == sd_init(sd_card, sc)
         IN  /\ sd_card' = r.card
             /\ op' = [name |-> "sd_init", sc |-> sc]
             /\ res' = IF r.res = "panic" THEN "Panic" ELSE r.res
             /\ log' = r.log
    /\ UNCHANGED <<card, overflow_checks>>

BlockOp(name, block_addr, blocks, len, wp, hw1, hw2) ==
    [name |-> name, block_addr |-> block_addr, blocks |-> blocks,
     len |-> len, wp |-> wp, hw1 |-> hw1, hw2 |-> hw2]

\* EMmcHost::read_block
ReadBlock ==
    /\ op = Idle
    /\ \E block_addr \in Addrs, len \in Lens, hw1 \in BlockHw :
         LET r == read_block(card, block_addr, len, hw1)
         IN  /\ op' = BlockOp("read_block", block_addr, 1, len, FALSE, hw1,
                              GoodHw)
             /\ res' = r.res
             /\ log' = r.log
    /\ UNCHANGED <<card, sd_card, overflow_checks>>

\* EMmcHost::write_block
WriteBlock ==
    /\ op = Idle
    /\ \E block_addr \in Addrs, len \in Lens, wp \in BOOLEAN,
          hw1 \in BlockHw :
         LET r == write_block(card, block_addr, len, overflow_checks, hw1)
         IN  /\ op' = BlockOp("write_block", block_addr, 1, len, wp, hw1,
                              GoodHw)
             /\ res' = r.res
             /\ log' = r.log
    /\ UNCHANGED <<card, sd_card, overflow_checks>>

\* EMmcHost::read_blocks
ReadBlocks ==
    /\ op = Idle
    /\ \E block_addr \in Addrs, blocks \in Counts, len \in Lens,
          hw1 \in BlockHw, hw2 \in StopHw :
         LET r == read_blocks(card, block_addr, blocks, len, overflow_checks,
                              hw1, hw2)
         IN  /\ op' = BlockOp("read_blocks", block_addr, blocks, len, FALSE,
                              hw1, hw2)
             /\ res' = r.res
             /\ log' = r.log
    /\ UNCHANGED <<card, sd_card, overflow_checks>>

\* EMmcHost::write_blocks
WriteBlocks ==
    /\ op = Idle
    /\ \E block_addr \in Addrs, blocks \in Counts, len \in Lens,
          wp \in BOOLEAN, hw1 \in BlockHw, hw2 \in StopHw :
         LET r == write_blocks(card, block_addr, blocks, len, wp,
                               overflow_checks, hw1, hw2)
         IN  /\ op' = BlockOp("write_blocks", block_addr, blocks, len, wp,
                              hw1, hw2)
             /\ res' = r.res
             /\ log' = r.log
    /\ UNCHANGED <<card, sd_card, overflow_checks>>

Next ==
    \/ EMmcInit
    \/ SdInit
    \/ ReadBlock
    \/ WriteBlock
    \/ ReadBlocks
    \/ WriteBlocks
    \/ Return

Spec == Init /\ [][Next]_vars

----------------------------------------------------------------------------
(* The command engine on its own: a descriptor, a buffer and a controller *)
(* behaviour are drawn, and send_command is applied to them.              *)

CmdDescriptors ==
    {EMmcCommand_new(MMC_GO_IDLE_STATE, W(0), MMC_RSP_NONE),
     EMmcCommand_new(MMC_SEND_OP_COND, W(0), MMC_RSP_R3),
     EMmcCommand_new(MMC_SEND_CSD, W(1), MMC_RSP_R2),
     EMmcCommand_new(MMC_SWITCH, W(7), MMC_RSP_R1B),
     EMmcCommand_new(MMC_STOP_TRANSMISSION, W(0), MMC_RSP_R1B),
     with_data(EMmcCommand_new(MMC_STOP_TRANSMISSION, W(0), MMC_RSP_R1B),
               512, 1, TRUE),
     with_data(EMmcCommand_new(MMC_READ_SINGLE_BLOCK, W(5), MMC_RSP_R1),
               512, 1, TRUE),
     with_data(EMmcCommand_new(MMC_READ_MULTIPLE_BLOCK, W(5), MMC_RSP_R1),
               512, 2, TRUE),
     with_data(EMmcCommand_new(MMC_WRITE_BLOCK, W(5), MMC_RSP_R1),
               512, 1, FALSE),
     with_data(EMmcCommand_new(MMC_WRITE_MULTIPLE_BLOCK, W(5), MMC_RSP_R1),
               512, 2, FALSE),
     with_data(EMmcCommand_new(MMC_WRITE_BLOCK, W(5), MMC_RSP_R1B),
               512, 1, FALSE),
     EMmcCommand_new(MMC_SEND_TUNING_BLOCK_HS200, W(0), MMC_RSP_R1)}

\* the buffers a descriptor can be sent with
BuffersOf(cmd) ==
    {NoBuffer, ReadBuffer(cmd.block_size * cmd.block_count),
     WriteBuffer(cmd.block_size * cmd.block_count)}

\* error interrupt status values: no bit, each single bit 0..8, some pairs
ErrValues == {0} \cup {2^i : i \in 0..8} \cup {3, 6, 48, 130, 384}

CmdHw ==
    {GoodHw, HwSilent, HwBusy,
     [GoodHw EXCEPT !.cmdBusy = 150],
     [GoodHw EXCEPT !.cmdBusy = 400],
     [GoodHw EXCEPT !.datBusy = Never],
     [GoodHw EXCEPT !.pre = 3],
     [GoodHw EXCEPT !.stat = EMMC_INT_RESPONSE, !.dpre = 2],
     [GoodHw EXCEPT !.stat = EMMC_INT_DATA_AVAIL],
     [GoodHw EXCEPT !.stat = EMMC_INT_DATA_AVAIL, !.pre = 2],
     [GoodHw EXCEPT !.dstat = 0],
     [GoodHw EXCEPT !.rstCmd = Never],
     [GoodHw EXCEPT !.rstDat = Never]}
    \cup {[GoodHw EXCEPT !.stat = EMMC_INT_ERROR, !.err = e] :
            e \in ErrValues}
    \cup {[GoodHw EXCEPT !.stat = EMMC_INT_ERROR + EMMC_INT_RESPONSE,
                         !.err = e, !.rstCmd = b] :
            e \in {1, 2}, b \in {3, Never}}
    \cup {[GoodHw EXCEPT !.stat = EMMC_INT_ERROR, !.err = 2, !.rstDat = Never]}
    \cup {[GoodHw EXCEPT !.dstat = EMMC_INT_ERROR, !.derr = e, !.rstDat = b] :
            e \in {0, 16, 32, 64}, b \in {0, Never}}

InitCmd ==
    /\ card = None
    /\ sd_card = None
    /\ overflow_checks = FALSE
    /\ res = "-"
    /\ log = <<>>
    /\ \E cmd \in CmdDescriptors, hw \in CmdHw :
         \E buf \in BuffersOf(cmd) :
           op = [name |-> "send_command", cmd |-> cmd, buf |-> buf,
                 hw |-> hw]

\* EMmcHost::send_command
Send ==
    /\ op.name = "send_command"
    /\ res = "-"
    /\ LET r == SendCommand(op.cmd, op.buf, op.hw)
       IN  /\ res' = r.res
           /\ log' = r.log
    /\ UNCHANGED <<card, sd_card, op, overflow_checks>>

NextCmd == Send

SpecCmd == InitCmd /\ [][NextCmd]_vars

----------------------------------------------------------------------------
(* Two callers on one controller.  send_command and the block operations  *)
(* take &self and EMmcHost holds no lock (emmc/mod.rs:27-37), so two      *)
(* callers that share the host run their calls concurrently.  Each caller *)
(* advances by one register access at a time; log[t] is what caller t has *)
(* done so far and res[t] its result, "-" until its call returns.         *)

Callers == {1, 2}

SharedCalls ==
    {[cmd |-> EMmcCommand_new(MMC_SEND_STATUS, W(1), MMC_RSP_R1),
      buf |-> NoBuffer, hw |-> GoodHw],
     [cmd |-> EMmcCommand_new(MMC_SEND_STATUS, W(1), MMC_RSP_R1),
      buf |-> NoBuffer, hw |-> [GoodHw EXCEPT !.pre = 2]],
     [cmd |-> EMmcCommand_new(MMC_STOP_TRANSMISSION, W(0), MMC_RSP_R1B),
      buf |-> NoBuffer, hw |-> HwCrc],
     [cmd |-> with_data(EMmcCommand_new(MMC_READ_SINGLE_BLOCK, W(5),
                                        MMC_RSP_R1), 512, 1, TRUE),
      buf |-> ReadBuffer(512), hw |-> GoodHw]}

InitShared ==
    /\ card = None
    /\ sd_card = None
    /\ overflow_checks = FALSE
    /\ res = [t \in Callers |-> "-"]
    /\ log = [t \in Callers |-> <<>>]
    /\ \E c1 \in SharedCalls, c2 \in SharedCalls :
         op = [name |-> "shared", calls |-> <<c1, c2>>]

\* the call of caller t, run to its end
CallOf(t) == SendCommand(op.calls[t].cmd, op.calls[t].buf, op.calls[t].hw)

\* caller t does the next register access of its send_command, and
\* returns with the last one
SharedStep(t) ==
    /\ op.name = "shared"
    /\ res[t] = "-"
    /\ LET r == CallOf(t)
           n == Len(log[t])
       IN  /\ n < Len(r.log)
           /\ log' = [log EXCEPT ![t] = Append(@, r.log[n + 1])]
           /\ res' = IF n + 1 = Len(r.log) THEN [res EXCEPT ![t] = r.res]
                     ELSE res
    /\ UNCHANGED <<card, sd_card, op, overflow_checks>>

NextShared == \E t \in Callers : SharedStep(t)

SpecShared == InitShared /\ [][NextShared]_vars

----------------------------------------------------------------------------
(* The parts of mmc_change_freq on their own: the card-type mask, the     *)
(* bus-width selection and the HS200 tuning, each applied once to inputs  *)
(* drawn in the initial state.  res is <<>> until the call returns and    *)
(* then the tuple of the values it returned.                              *)

\* the bytes of the EXT_CSD that mmc_select_bus_width compares
TestFields ==
    {"partitioning_support", "hc_wp_grp_size", "rev", "hc_erase_grp_size",
     "sec_cnt0", "sec_cnt1", "sec_cnt2", "sec_cnt3"}

\* the card as mmc_change_freq finds it: selected, version 4 or later, on
\* a 1-bit bus with High-Speed timing
SelectedCard(version) ==
    [EMmcCard_init("Unknown") EXCEPT !.rca = W(1), !.version = version,
                                     !.bus_width = 1,
                                     !.timing = MMC_TIMING_MMC_HS,
                                     !.clock = MMC_HIGH_52_MAX_DTR]

\* the commands of a bus-width selection that are made to fail, by
\* position: 0 is the first SEND_EXT_CSD, 1 the SWITCH to 8-bit, 2 its
\* status poll (or the second transmission of the SWITCH), 3 the
\* verification read (or the third transmission)
WidthBad == {{}, {0}, {1}, {2}, {3}, {1, 2, 3}, {3, 6}, {1, 2, 3, 4, 5, 6}}

WidthScripts ==
    {[BaseScript EXCEPT !.testOk = ok, !.testField = f, !.bad = b,
                        !.badHw = HwCrc] :
       ok \in SUBSET {MMC_BUS_WIDTH_8BIT, MMC_BUS_WIDTH_4BIT},
       f \in TestFields, b \in WidthBad}

\* the tuning command after which the execute-tuning bit reads as cleared
TuneAfters == {1, 2, MAX_TUNING_LOOP - 1, MAX_TUNING_LOOP,
               MAX_TUNING_LOOP + 1, Never}

TuningScripts ==
    {[BaseScript EXCEPT !.tuneAfter = a, !.tuned = t, !.bad = b,
                        !.badHw = hw] :
       a \in TuneAfters, t \in BOOLEAN, b \in {{}, {0}, {2}},
       hw \in {HwCrc, HwSilent}}

\* answers to SEND_OP_COND: the first answer, and the answers of the
\* retries where they differ from it in the capacity, access-mode or
\* voltage bits
OcrAnswers ==
    {[hi |-> 16639, lo |-> 32896], [hi |-> 255, lo |-> 32896],
     [hi |-> 8192 + 48, lo |-> 0], [hi |-> 24576, lo |-> 128]}

OcrScripts ==
    {[BaseScript EXCEPT !.ocr = first, !.ocrLater = later,
                        !.ocrBusyAfter = after, !.bad = b, !.badHw = HwCrc,
                        !.vdd = vdd] :
       first \in OcrAnswers,
       later \in {<<>>} \cup {<<w>> : w \in OcrAnswers}
                 \cup {<<[hi |-> 255, lo |-> 32896],
                         [hi |-> 16639, lo |-> 32896]>>},
       after \in {0, 1, 2, Never}, b \in {{}, {0}, {2}},
       vdd \in {330, 300, 180}}

\* cards of every CSD version code, with the bring-up cut short at
\* SEND_CSD or SELECT_CARD or not at all
VersionScripts ==
    {[BaseScript EXCEPT !.csd = CsdOfVersion(csd_version), !.bad = b,
                        !.badHw = HwCrc] :
       csd_version \in 0..15, b \in {{}, {5}, {6}}}

\* EXT_CSD revision bytes: the known ones, 0, 1, 4 and two above 8
Revisions == {0, 1, 2, 3, 4, 5, 6, 7, 8, 9, 255}

\* card-type bitmaps: none, high speed and DDR, HS200 and HS400, all
CardTypes == {0, 7, 87, 255}

\* version 4 cards answering with each revision and card-type bitmap
RevisionScripts ==
    {[BaseScript EXCEPT !.ext.rev = rev, !.ext.card_type = card_type] :
       rev \in Revisions, card_type \in CardTypes}

\* the card as EMmcHost::init hands it to init_card: fresh, on a 1-bit bus
\* at the identification clock
FreshCard ==
    [EMmcCard_init("Unknown") EXCEPT !.bus_width = 1, !.clock = 400000]

\* descriptors of every response type: the five flag bits and one bit
\* that neither engine looks at
RegDescriptors ==
    {[EMmcCommand_new(opcode, W(0), resp_type) EXCEPT
        !.data_present = data_present] :
       opcode \in {0, 6, 17, 63, 255}, resp_type \in 0..63,
       data_present \in BOOLEAN}

\* contents of one response register: every byte different, all ones,
\* a set top bit, zero
ResponseWords ==
    {[hi |-> 4660, lo |-> 22136], [hi |-> 65535, lo |-> 65535],
     [hi |-> 32929, lo |-> 255], W(0)}

InitSub ==
    /\ sd_card = None
    /\ overflow_checks = FALSE
    /\ res = <<>>
    /\ log = <<>>
    /\ \/ /\ card = None
          /\ \E card_type \in 0..255, strobe_support \in 0..1 :
               op = [name |-> "select_card_type",
                     ext_csd |-> [BaseExt EXCEPT
                                    !.card_type = card_type,
                                    !.strobe_support = strobe_support]]
       \/ /\ \E version \in {MMC_VERSION_4, MMC_VERSION_5_1} :
               card = Some(SelectedCard(version))
          /\ \E sc \in WidthScripts :
               op = [name |-> "select_bus_width", sc |-> sc]
       \/ /\ \E bus_width \in {MMC_BUS_WIDTH_4BIT, MMC_BUS_WIDTH_8BIT} :
               card = Some([SelectedCard(MMC_VERSION_5_1) EXCEPT
                              !.bus_width = bus_width,
                              !.timing = MMC_TIMING_MMC_HS200,
                              !.clock = MMC_HS200_MAX_DTR])
          /\ \E sc \in TuningScripts :
               op = [name |-> "hs200_tuning", sc |-> sc]
       \/ /\ card = None
          /\ \E r0 \in ResponseWords, r1 \in ResponseWords,
                r2 \in ResponseWords, r3 \in ResponseWords :
               op = [name |-> "response", raw |-> <<r0, r1, r2, r3>>]
       \/ /\ card = None
          /\ \E cmd \in RegDescriptors :
               op = [name |-> "command_register", cmd |-> cmd]
       \/ /\ card = Some(FreshCard)
          /\ \E sc \in VersionScripts \cup RevisionScripts :
               op = [name |-> "init_card", sc |-> sc]
       \/ /\ card = Some(FreshCard)
          /\ \E sc \in OcrScripts, ocr \in {W(0), ocr_hcs},
                retry \in {2, 5} :
               op = [name |-> "send_op_cond", sc |-> sc, ocr |-> ocr,
                     retry |-> retry]

\* EMmcHost::mmc_select_card_type
SelectCardType ==
    /\ op.name = "select_card_type"
    /\ res = <<>>
    /\ res' = <<mmc_select_card_type(op.ext_csd)>>
    /\ UNCHANGED <<card, sd_card, op, log, overflow_checks>>

\* EMmcHost::mmc_select_bus_width
SelectBusWidth ==
    /\ op.name = "select_bus_width"
    /\ res = <<>>
    /\ LET r == mmc_select_bus_width(Start(card[1]), op.sc)
       IN  /\ card' = Some(r.x.card)
           /\ res' = <<r.x.res, r.ret>>
           /\ log' = r.x.log
    /\ UNCHANGED <<sd_card, op, overflow_checks>>

\* EMmcHost::mmc_hs200_tuning
Hs200Tuning ==
    /\ op.name = "hs200_tuning"
    /\ res = <<>>
    /\ LET r == mmc_hs200_tuning(Start(card[1]), op.sc)
       IN  /\ card' = Some(r.card)
           /\ res' = <<r.res>>
           /\ log' = r.log
    /\ UNCHANGED <<sd_card, op, overflow_checks>>

\* EMmcHost::mmc_send_op_cond
SendOpCond ==
    /\ op.name = "send_op_cond"
    /\ res = <<>>
    /\ LET r == mmc_send_op_cond(Start(card[1]), op.sc, Voltages(op.sc.vdd),
                                 op.ocr, op.retry)
       IN  /\ card' = Some(r.card)
           /\ res' = <<r.res>>
           /\ log' = r.log
    /\ UNCHANGED <<sd_card, op, overflow_checks>>

\* EMmcHost::init_card
InitCard ==
    /\ op.name = "init_card"
    /\ res = <<>>
    /\ LET r == init_card(Start(card[1]), op.sc, Voltages(op.sc.vdd))
       IN  /\ card' = Some(r.card)
           /\ res' = <<r.res>>
           /\ log' = r.log
    /\ UNCHANGED <<sd_card, op, overflow_checks>>

\* the command register value of one descriptor as EMmcHost::send_command
\* and as SdHost::send_command compute it
CommandRegister ==
    /\ op.name = "command_register"
    /\ res = <<>>
    /\ res' = <<CommandReg(op.cmd), SdCommandReg(op.cmd)>>
    /\ UNCHANGED <<card, sd_card, op, log, overflow_checks>>

\* the views of one response: as_r1, as_r2, as_r3, as_r6, as_r7
ResponseViews ==
    /\ op.name = "response"
    /\ res = <<>>
    /\ res' = <<as_r1(op.raw), as_r2(op.raw), as_r3(op.raw), as_r6(op.raw),
                as_r7(op.raw)>>
    /\ UNCHANGED <<card, sd_card, op, log, overflow_checks>>

NextSub ==
    \/ ResponseViews
    \/ CommandRegister
    \/ InitCard
    \/ SendOpCond
    \/ SelectCardType
    \/ SelectBusWidth
    \/ Hs200Tuning

SpecSub == InitSub /\ [][NextSub]_vars

----------------------------------------------------------------------------
(* Reading the record of a call *)

\* positions of the writes of a register
WritesOf(reg) == {i \in 1..Len(log) : log[i].k = "w" /\ log[i].r = reg}

\* positions of the command register writes: the commands issued
CommandIdx == WritesOf("COMMAND")

\* positions of the command register writes of one opcode
Issued(opcode) == {i \in CommandIdx : log[i].v \div 256 = opcode}

\* the argument register as it stands when the command at position i is
\* issued
ArgOf(i) ==
    LET before == {j \in WritesOf("ARGUMENT") : j < i}
        last == CHOOSE j \in before : \A k \in before : k <= j
    IN  log[last].v

\* positions where a reset of the given lines is requested
ResetsOf(mask) ==
    {i \in WritesOf("SOFTWARE_RESET") : log[i].v = mask}

\* positions where buffer data is pushed to the data port
PushIdx == {i \in 1..Len(log) : log[i].k = "push"}

NoRegisterAccess == log = <<>>

IsBlockOp ==
    op.name \in {"read_block", "write_block", "read_blocks", "write_blocks"}

Returned == res \notin {"-", "Panic"}

IsErr == Returned /\ res # "Ok"

CardReady == card # None /\ card[1].initialized

\* the buffer has the length the call requires
LenOk == op.len = op.blocks * 512

----------------------------------------------------------------------------
(* C1 *)

\* C1: when EMmcHost::init or SdHost::init returns Err, the host holds no
\* card whose initialized flag is true, also when the call follows an
\* earlier successful one; and a card is initialized after init only if
\* init returned Ok.
C1_NoInitializedCardAfterErr ==
    /\ (op.name = "init" /\ IsErr) => ~CardReady
    /\ (op.name = "init" /\ Returned /\ CardReady) => res = "Ok"
    /\ (op.name = "sd_init" /\ IsErr)
         => ~(sd_card # None /\ sd_card[1].initialized)

----------------------------------------------------------------------------
(* C2 *)

\* C2: a block operation called with a correct buffer while no card is
\* present returns NoCard, while the card is not initialized returns
\* UnsupportedCard, and in both cases writes no command register.
C2_NoCommandUnlessReady ==
    (IsBlockOp /\ LenOk /\ res # "-" /\ ~CardReady)
      => /\ CommandIdx = {}
         /\ res = IF card = None THEN "NoCard" ELSE "UnsupportedCard"

----------------------------------------------------------------------------
(* C3 *)

IsMultiOp == op.name \in {"read_blocks", "write_blocks"}

\* the positions of the data commands of the block operations
DataCommands ==
    Issued(MMC_READ_SINGLE_BLOCK) \cup Issued(MMC_READ_MULTIPLE_BLOCK)
    \cup Issued(MMC_WRITE_BLOCK) \cup Issued(MMC_WRITE_MULTIPLE_BLOCK)

\* a is the 32-bit value n x 512 (false when the product needs more bits)
IsTimes512(a, n) ==
    /\ a.lo = (n.lo * 512) % 65536
    /\ a.hi = n.hi * 512 + ((n.lo * 512) \div 65536)

\* n x 512 fits 32 bits
Fits512(n) == n.hi * 512 + ((n.lo * 512) \div 65536) < 65536

\* C3 as stated: for every logical block address n, the data command of
\* read_blocks / write_blocks carries n on a high-capacity card and
\* n x 512 on a standard-capacity card.
C3_ArgumentEveryAddress ==
    (IsMultiOp /\ card # None)
      => \A i \in DataCommands :
           IF StateHighCapacity(card[1]) THEN ArgOf(i) = op.block_addr
           ELSE IsTimes512(ArgOf(i), op.block_addr)

\* C3 amended: the same for every n on a high-capacity card and for
\* every n whose byte address n x 512 fits 32 bits on a standard-capacity
\* card; for larger n the product wraps modulo 2^32, or the call panics in
\* a build with overflow checks and issues nothing.
C3_ArgumentInRange ==
    (IsMultiOp /\ card # None)
      => /\ \A i \in DataCommands :
              IF StateHighCapacity(card[1]) THEN ArgOf(i) = op.block_addr
              ELSE IF Fits512(op.block_addr)
              THEN IsTimes512(ArgOf(i), op.block_addr)
              ELSE /\ ~overflow_checks
                   /\ ArgOf(i).lo = (op.block_addr.lo * 512) % 65536
                   /\ ArgOf(i).hi =
                        (op.block_addr.hi * 512
                         + ((op.block_addr.lo * 512) \div 65536)) % 65536
         /\ (CardReady /\ LenOk /\ ~(op.name = "write_blocks" /\ op.wp)
             /\ res # "Panic" /\ res # "-")
              => DataCommands # {}
         /\ (res = "Panic")
              => /\ overflow_checks
                 /\ ~StateHighCapacity(card[1])
                 /\ ~Fits512(op.block_addr)
                 /\ CommandIdx = {}

\* a standard-capacity card was written at the largest address whose byte
\* address fits, and a high-capacity card at a large address
C3_Witness ==
    /\ op.name = "write_blocks"
    /\ res = "Ok"
    /\ card # None
    /\ ~StateHighCapacity(card[1])
    /\ op.block_addr = [hi |-> 127, lo |-> 65535]
    /\ \E i \in DataCommands : ArgOf(i) = [hi |-> 65535, lo |-> 65024]

----------------------------------------------------------------------------
(* C4 *)

\* C4: read_blocks / write_blocks with count = 1 issue the single-block
\* command and no STOP_TRANSMISSION; the multiple-block command and
\* STOP_TRANSMISSION appear only when count > 1.
C4_SingleBlockCommandForOne ==
    (IsMultiOp /\ op.blocks = 1)
      => /\ Issued(MMC_READ_MULTIPLE_BLOCK) = {}
         /\ Issued(MMC_WRITE_MULTIPLE_BLOCK) = {}
         /\ Issued(MMC_STOP_TRANSMISSION) = {}

----------------------------------------------------------------------------
(* C5 *)

\* the controller reports success for the whole call
HwSucceeds == op.hw1 \in {GoodHw, HwSlow} /\ op.hw2 \in {GoodHw, HwSlow}

C5_Case ==
    /\ op.name = "write_blocks"
    /\ op.blocks > 1
    /\ LenOk
    /\ CardReady
    /\ StateHighCapacity(card[1])
    /\ ~op.wp
    /\ HwSucceeds
    /\ res # "-"

----------------------------------------------------------------------------
(* C6 *)

\* C6: write_block and write_blocks called on a ready card with a correct
\* buffer while the write-protect bit is set return IoError and issue no
\* command.
C6_WriteProtectRefused ==
    (op.name \in {"write_block", "write_blocks"} /\ op.wp /\ LenOk
     /\ CardReady /\ res # "-")
      => res = "IoError" /\ CommandIdx = {}

----------------------------------------------------------------------------
(* C7 *)

\* C7: a block operation whose buffer length is not count x 512 (512 for
\* the single-block operations) returns IoError without any register
\* access, whether or not a card is present or initialized.
C7_LengthCheckedFirst ==
    (IsBlockOp /\ ~LenOk /\ res # "-")
      => res = "IoError" /\ NoRegisterAccess

\* a wrong length was refused with IoError where the card checks would have
\* refused the call too
C7_Witness ==
    /\ op.name = "write_blocks"
    /\ ~LenOk
    /\ op.wp
    /\ card = None
    /\ res = "IoError"

----------------------------------------------------------------------------
(* C8 *)

\* send_command read the error status register: it saw the error bit
ErrorObserved ==
    \E i \in 1..Len(log) : log[i].k = "r" /\ log[i].r = "ERROR_INT_STAT"

\* C8: whenever send_command observes the error bit, in the command phase
\* or in the data phase, the command-line reset is requested before it
\* returns, and the data-line reset is requested exactly if the descriptor
\* has data.
C8_ResetsOnError ==
    (op.name = "send_command" /\ res # "-" /\ ErrorObserved)
      => /\ ResetsOf(EMMC_RESET_CMD) # {}
         /\ (ResetsOf(EMMC_RESET_DATA) # {}) <=> op.cmd.data_present

----------------------------------------------------------------------------
(* C9 *)

\* the command phase ended with the error bit set
CmdPhaseError ==
    /\ op.name = "send_command"
    /\ res # "-"
    /\ CommandIdx # {}
    /\ Test(op.hw.stat, EMMC_INT_ERROR)
    /\ op.hw.pre < CMD_DEFAULT_TIMEOUT

\* the line resets of the error branch complete
ResetsComplete ==
    /\ op.hw.rstCmd <= 100
    /\ op.cmd.data_present => op.hw.rstDat <= 100

ErrorNames ==
    <<"Timeout", "Crc", "EndBit", "Index", "DataTimeout", "DataCrc",
      "DataEndBit", "CurrentLimit">>

\* the error the lowest set bit among bits 0..7 stands for
ErrorOfLowestBit(e) ==
    LET set == {i \in 0..7 : (e \div 2^i) % 2 = 1}
    IN  IF set = {} THEN "CommandError"
        ELSE ErrorNames[(CHOOSE i \in set : \A j \in set : i <= j) + 1]

\* C9: an error in the command phase, with the resets completing, is
\* returned as the error of the lowest set bit 0..7 of the error status
\* (Timeout, Crc, EndBit, Index, DataTimeout, DataCrc, DataEndBit,
\* CurrentLimit), CommandError if none is set, after the command-line
\* reset was requested; a CRC bit alone during SEND_CSD gives Crc.
C9_ErrorMapping ==
    (CmdPhaseError /\ ResetsComplete)
      => /\ res = ErrorOfLowestBit(op.hw.err)
         /\ ResetsOf(EMMC_RESET_CMD) # {}
         /\ (op.cmd.opcode = MMC_SEND_CSD /\ op.hw.err = 2) => res = "Crc"

C9_Witness ==
    /\ CmdPhaseError
    /\ op.cmd.opcode = MMC_SEND_CSD
    /\ op.hw.err = 2
    /\ res = "Crc"
    /\ ResetsOf(EMMC_RESET_CMD) # {}

----------------------------------------------------------------------------
(* C10 *)

\* the inhibit bits the descriptor waits for never clear
InhibitNeverClears ==
    /\ op.name = "send_command"
    /\ res # "-"
    /\ \/ op.hw.cmdBusy = Never
       \/ /\ op.hw.datBusy = Never
          /\ op.cmd.data_present
          /\ op.cmd.opcode # MMC_STOP_TRANSMISSION

PresentStateReads ==
    {i \in 1..Len(log) : log[i].k = "r" /\ log[i].r = "PRESENT_STATE"}

\* C10 as stated: if the inhibit bits never clear, send_command fails with
\* Timeout and writes neither the argument nor the command register.
C10_TimeoutWithoutCommand ==
    InhibitNeverClears
      => /\ res = "Timeout"
         /\ WritesOf("ARGUMENT") = {}
         /\ CommandIdx = {}

\* What send_command does instead: it doubles its budget from 100 to 200
\* to 400 (800 would exceed the ceiling 500), gives up waiting after 401
\* reads of the present state, and then goes on: it writes the argument
\* register, and the command register unless the buffer does not fit the
\* descriptor; the wait itself returns no Timeout.
C10_GivesUpWaitingAndSends ==
    InhibitNeverClears
      => /\ Cardinality(PresentStateReads) = 401
         /\ Cardinality(WritesOf("ARGUMENT")) = 1
         /\ \A a \in WritesOf("ARGUMENT") :
              /\ \A i \in PresentStateReads : i < a
              /\ Cardinality({i \in WritesOf("NORMAL_INT_STAT") : i < a}) = 3
         /\ (res # "InvalidArgument") => Cardinality(CommandIdx) = 1
         /\ (res = "InvalidArgument") => CommandIdx = {}

C10_Witness ==
    /\ InhibitNeverClears
    /\ op.cmd.opcode = MMC_SEND_CSD
    /\ res = "Ok"
    /\ Cardinality(CommandIdx) = 1

----------------------------------------------------------------------------
(* C11 *)

\* the inhibit bits the descriptor waits for are clear at the first read
InhibitClearOnEntry ==
    /\ op.name = "send_command"
    /\ res # "-"
    /\ op.hw.cmdBusy = 0
    /\ (op.cmd.data_present /\ op.cmd.opcode # MMC_STOP_TRANSMISSION)
         => op.hw.datBusy = 0

\* positions of the delays
DelayIdx == {i \in 1..Len(log) : log[i].k = "delay"}

\* position of the first register write: the programming starts here
FirstWrite ==
    CHOOSE i \in 1..Len(log) :
      /\ log[i].k = "w"
      /\ \A j \in 1..(i - 1) : log[j].k # "w"

\* C11: when the masked inhibit bits are clear on entry, send_command does
\* exactly one present-state read and no delay, and then starts programming
\* the command with the clearing of the interrupt status.
C11_OneReadNoDelay ==
    InhibitClearOnEntry
      => /\ Len(log) >= 2
         /\ log[1] = Rd("PRESENT_STATE")
         /\ FirstWrite = 2
         /\ log[2] = Wr("NORMAL_INT_STAT", 65535)
         /\ Cardinality(PresentStateReads) = 1
         /\ \A i \in DelayIdx : i > FirstWrite

\* a command without data goes out at once although the data line is busy
C11_Witness ==
    /\ InhibitClearOnEntry
    /\ op.hw.datBusy = Never
    /\ op.cmd.opcode = MMC_SEND_CSD
    /\ res = "Ok"
    /\ Cardinality(PresentStateReads) = 1
    /\ Cardinality(CommandIdx) = 1

----------------------------------------------------------------------------
(* C12 *)

\* position of the last command issued
LastCommand == CHOOSE i \in CommandIdx : \A j \in CommandIdx : j <= i

\* bring-up reached SEND_OP_COND, the card never reports the end of its
\* power-up, and every command up to the last retry completes
NeverReadyCase ==
    /\ op.name = "init"
    /\ res # "-"
    /\ op.sc.ocrBusyAfter = Never
    /\ op.sc.bad \cap (0..(OpCondRetries + 1)) = {}
    /\ Issued(MMC_SEND_OP_COND) # {}

\* C12: when the card never sets the busy bit of the OCR and every
\* SEND_OP_COND completes, init returns UnsupportedCard after the query
\* and exactly 100 retries of SEND_OP_COND, and issues no command after
\* the last retry.
C12_GivesUpAfterRetries ==
    NeverReadyCase
      => /\ res = "UnsupportedCard"
         /\ Cardinality(Issued(MMC_SEND_OP_COND)) = OpCondRetries + 1
         /\ LastCommand \in Issued(MMC_SEND_OP_COND)
         /\ \A i \in Issued(MMC_SEND_OP_COND), j \in CommandIdx :
              j < i => \/ j \in Issued(MMC_SEND_OP_COND)
                       \/ j \in Issued(MMC_GO_IDLE_STATE)

C12_Witness ==
    /\ NeverReadyCase
    /\ res = "UnsupportedCard"
    /\ Cardinality(Issued(MMC_SEND_OP_COND)) = 101
    /\ Cardinality(Issued(MMC_GO_IDLE_STATE)) = 1

----------------------------------------------------------------------------
(* C13 *)

\* positions of the SWITCH commands that ask the card for a bus width
WidthSwitches(ext_csd_bits) ==
    {i \in Issued(MMC_SWITCH) :
       ArgOf(i) = SwitchArg(EXT_CSD_BUS_WIDTH, ext_csd_bits)}

IosIdx == {i \in 1..Len(log) : log[i].k = "ios"}

\* positions where the host changes its bus width to the given one
WidthSets(bus_width) ==
    {i \in IosIdx :
       /\ log[i].v[1] = bus_width
       /\ \E j \in IosIdx :
            /\ j < i
            /\ \A k \in IosIdx : ~(j < k /\ k < i)
            /\ log[j].v[1] # bus_width}

\* the SWITCH commands of one candidate are the transmissions of a single
\* mmc_switch call: at most three, with no other command between them
OneAttempt(ext_csd_bits) ==
    /\ Cardinality(WidthSwitches(ext_csd_bits)) <= 3
    /\ \A i, j \in WidthSwitches(ext_csd_bits) :
         \A k \in CommandIdx :
           (i < k /\ k < j) => k \in WidthSwitches(ext_csd_bits)

\* C13: during one bring-up the 8-bit candidate is tried before the 4-bit
\* one and never after it, the 4-bit candidate is the first one only on a
\* host without the 8-bit capability, each candidate is attempted at most
\* once (one mmc_switch call, which transmits SWITCH up to three times)
\* and the host is set to each width at most once.
C13_WidthCandidatesInOrder ==
    (op.name = "init" /\ res # "-")
      => /\ \A i \in WidthSwitches(EXT_CSD_BUS_WIDTH_8),
              j \in WidthSwitches(EXT_CSD_BUS_WIDTH_4) : i < j
         /\ OneAttempt(EXT_CSD_BUS_WIDTH_8)
         /\ OneAttempt(EXT_CSD_BUS_WIDTH_4)
         /\ Cardinality(WidthSets(MMC_BUS_WIDTH_8BIT)) <= 1
         /\ Cardinality(WidthSets(MMC_BUS_WIDTH_4BIT)) <= 1
         /\ IF AnyCommon(host_caps, MMC_MODE_8BIT)
            THEN WidthSwitches(EXT_CSD_BUS_WIDTH_4) # {}
                   => WidthSwitches(EXT_CSD_BUS_WIDTH_8) # {}
            ELSE WidthSwitches(EXT_CSD_BUS_WIDTH_8) = {}

\* the 8-bit candidate is given up after three failed transmissions of
\* SWITCH and the 4-bit candidate is accepted
C13_Witness ==
    /\ op.name = "init"
    /\ res = "Ok"
    /\ Cardinality(WidthSwitches(EXT_CSD_BUS_WIDTH_8)) = 3
    /\ Cardinality(WidthSwitches(EXT_CSD_BUS_WIDTH_4)) = 1
    /\ card[1].bus_width = MMC_BUS_WIDTH_4BIT

----------------------------------------------------------------------------
(* C14 *)

\* the fields of a version-1 style CSD: C_SIZE is bits 73..62, C_SIZE_MULT
\* bits 49..47 and READ_BL_LEN bits 83..80 of the 128-bit register, whose
\* bits 127..96 are csd[1] here
C_SIZE(csd) == (csd[2].lo % 1024) * 4 + (csd[3].hi \div 16384)

C_SIZE_MULT(csd) == (csd[3].hi % 4) * 2 + (csd[3].lo \div 32768)

READ_BL_LEN(csd) == csd[2].hi % 16

\* init read the CSD of a standard-capacity card whose sector count does
\* not replace the capacity of the CSD
StandardCapacityRead ==
    /\ op.name = "init"
    /\ res # "-"
    /\ card # None
    /\ card[1].csd = op.sc.csd
    /\ ~card[1].high_capacity
    /\ ~U64Over2G(SecCapacity(op.sc.ext))

\* C14: for a standard-capacity CSD the capacity_user computed by
\* init_card is (C_SIZE + 1) x 2^(C_SIZE_MULT + 2) x 2^READ_BL_LEN.
C14_CapacityFormula ==
    StandardCapacityRead
      => card[1].capacity_user =
           U64Mul(U64Mul(U64Of(C_SIZE(op.sc.csd) + 1),
                         2 ^ (C_SIZE_MULT(op.sc.csd) + 2)),
                  2 ^ READ_BL_LEN(op.sc.csd))

\* What init_card computes: the last factor is the READ_BL_LEN field
\* itself, the exponent, not the block length it encodes.
C14_CapacityAsComputed ==
    StandardCapacityRead
      => card[1].capacity_user =
           U64Mul(U64Mul(U64Of(C_SIZE(op.sc.csd) + 1),
                         2 ^ (C_SIZE_MULT(op.sc.csd) + 2)),
                  READ_BL_LEN(op.sc.csd))

C14_Witness ==
    /\ StandardCapacityRead
    /\ res = "Ok"
    /\ READ_BL_LEN(op.sc.csd) = 10
    /\ C_SIZE(op.sc.csd) = 643
    /\ C_SIZE_MULT(op.sc.csd) = 7
    /\ card[1].capacity_user = U64Of(644 * 512 * 10)

----------------------------------------------------------------------------
(* C15 *)

\* caller t has begun to program its command: it has written a register
Programming(t) ==
    \E i \in 1..Len(log[t]) : log[t][i].k = "w"

\* the command of caller t is in flight: programming has begun and the
\* call has not returned
InFlight(t) == res[t] = "-" /\ Programming(t)

\* C15: at most one command is in flight on a controller: while one
\* caller is between the first register write of its command and its
\* return, no other caller sharing the host is.
C15_OneCommandInFlight ==
    op.name = "shared"
      => \A a, b \in Callers : (InFlight(a) /\ InFlight(b)) => a = b

----------------------------------------------------------------------------
(* C16 *)

\* positions of the reads of a register
ReadsOf(reg) == {i \in 1..Len(log) : log[i].k = "r" /\ log[i].r = reg}

\* the most present-state reads of one inhibit wait: the budget grows from
\* 100 to 200 to 400 and the wait is given up at the read after that
InhibitPolls == 4 * CMD_DEFAULT_TIMEOUT + 1

\* the most interrupt-status reads of one command: the completion wait
\* alone with the long budget, or the completion wait, one buffer-ready
\* wait for each block and the end-of-data wait with the default budget
StatusPolls ==
    LET data == (CMD_DEFAULT_TIMEOUT + 1) * (MaxBlocks + 2)
    IN  IF data > CMD_MAX_TIMEOUT + 1 THEN data ELSE CMD_MAX_TIMEOUT + 1

\* the most reads of the software reset register after one reset request:
\* the budget of reset_cmd and reset_data, cmd.rs:458, and the read that
\* gives up
ResetPolls == 100 + 1

\* a call of the eMMC host has ended
CallEnded == (op.name = "init" \/ IsBlockOp) /\ res # "-"

\* C16: whatever the registers show, a call polls a bounded number of
\* times: at most 401 present-state reads and 505 interrupt-status reads
\* for each command it issues, at most 101 reads of the reset register
\* for each reset it requests, at most 101 SEND_OP_COND, 40 tuning
\* commands with one read of host control 2 each, and two commands in a
\* block operation.
C16_BoundedPolls ==
    CallEnded
      => /\ Cardinality(ReadsOf("PRESENT_STATE"))
              <= InhibitPolls * Cardinality(CommandIdx) + 2
         /\ Cardinality(ReadsOf("NORMAL_INT_STAT"))
              <= StatusPolls * Cardinality(CommandIdx)
         /\ Cardinality(ReadsOf("SOFTWARE_RESET"))
              <= ResetPolls * Cardinality(WritesOf("SOFTWARE_RESET"))
         /\ Cardinality(Issued(MMC_SEND_OP_COND)) <= OpCondRetries + 1
         /\ Cardinality(Issued(MMC_SEND_TUNING_BLOCK_HS200))
              <= MAX_TUNING_LOOP
         /\ Cardinality(ReadsOf("HOST_CTRL2")) <= MAX_TUNING_LOOP + 1
         /\ IsBlockOp => Cardinality(CommandIdx) <= 2

\* a block operation on hardware that never changes: the inhibit wait is
\* given up after 401 reads, the data never ends and the data reset never
\* completes
C16_Witness ==
    /\ IsBlockOp
    /\ op.hw1 = HwStuck
    /\ res = "Timeout"
    /\ Cardinality(ReadsOf("PRESENT_STATE")) >= InhibitPolls
    /\ Cardinality(ReadsOf("NORMAL_INT_STAT")) >= CMD_DEFAULT_TIMEOUT + 1
    /\ Cardinality(ReadsOf("SOFTWARE_RESET")) = ResetPolls

----------------------------------------------------------------------------
(* C17 *)

\* send_command returned an error after it had written the command register
ErrAfterCommand ==
    /\ op.name = "send_command"
    /\ res \notin {"-", "Ok"}
    /\ CommandIdx # {}

\* C17: every error that send_command returns after the command register
\* was written, the Timeout of the completion wait included, comes after a
\* command-line reset requested since that write, and after a data-line
\* reset too when the command has data.
C17_ResetBeforeEveryErr ==
    ErrAfterCommand
      => \A c \in CommandIdx :
           /\ \E i \in ResetsOf(EMMC_RESET_CMD) : i > c
           /\ op.cmd.data_present
                => \E i \in ResetsOf(EMMC_RESET_DATA) : i > c

----------------------------------------------------------------------------
(* C18 *)

\* a single-block operation that issued its data command
SingleBlockIssued ==
    /\ op.name \in {"read_block", "write_block"}
    /\ res # "-"
    /\ card # None
    /\ CommandIdx # {}

\* C18: read_block(n) and write_block(n) program the argument that
\* read_blocks and write_blocks program for n: n on a high-capacity card
\* and n x 512 on a standard-capacity card.
C18_SingleBlockAddressing ==
    SingleBlockIssued
      => \A c \in CommandIdx :
           ArgOf(c) = Translate(card[1], op.block_addr, overflow_checks).addr

----------------------------------------------------------------------------
(* C19 *)

\* the descriptor is one that waits for the data line
WaitsForData ==
    op.cmd.data_present /\ op.cmd.opcode # MMC_STOP_TRANSMISSION

\* the number of present-state reads that see a bit the call should wait
\* for
BusyReads ==
    IF WaitsForData /\ op.hw.datBusy > op.hw.cmdBusy
    THEN op.hw.datBusy ELSE op.hw.cmdBusy

\* C19: send_command waits on the command-inhibit bit, and on the
\* data-inhibit bit exactly when the descriptor has data and is not
\* STOP_TRANSMISSION: the mask is that, and the present state is read
\* until those bits are clear (or the wait is given up at the 401st read),
\* whatever the other bit shows.
C19_InhibitMask ==
    (op.name = "send_command" /\ res # "-")
      => /\ InhibitMask(op.cmd)
              = EMMC_CMD_INHIBIT
                + (IF WaitsForData THEN EMMC_DATA_INHIBIT ELSE 0)
         /\ Cardinality(PresentStateReads)
              = IF BusyReads > 4 * CMD_DEFAULT_TIMEOUT
                THEN 4 * CMD_DEFAULT_TIMEOUT + 1
                ELSE BusyReads + 1

\* STOP_TRANSMISSION with data goes out at the first read although the
\* data line stays inhibited
C19_Witness ==
    /\ op.name = "send_command"
    /\ res # "-"
    /\ op.cmd.opcode = MMC_STOP_TRANSMISSION
    /\ op.cmd.data_present
    /\ op.hw.datBusy = Never
    /\ Cardinality(PresentStateReads) = 1
    /\ Cardinality(CommandIdx) = 1

----------------------------------------------------------------------------
(* C20 *)

\* the stage of bring-up a command belongs to; 7 is everything that follows
\* the selection of the card
StageOf(opcode) ==
    IF opcode = MMC_GO_IDLE_STATE THEN 0
    ELSE IF opcode = MMC_SEND_OP_COND THEN 1
    ELSE IF opcode = MMC_ALL_SEND_CID THEN 2
    ELSE IF opcode = MMC_SET_RELATIVE_ADDR THEN 3
    ELSE IF opcode = MMC_SEND_CSD THEN 4
    ELSE IF opcode = MMC_SET_DSR THEN 5
    ELSE IF opcode = MMC_SELECT_CARD THEN 6
    ELSE 7

\* the stages that are not optional
MandatoryStages == {0, 1, 2, 3, 4, 6}

StageAt(i) == StageOf(log[i].v \div 256)

\* the controller behaviour makes the command fail
FailingHw(hw) == hw.stat = 0 \/ Test(hw.stat, EMMC_INT_ERROR)

\* position of the n-th command issued, counting from 0
NthCommand(n) ==
    CHOOSE i \in CommandIdx : Cardinality({j \in CommandIdx : j < i}) = n

\* C20: the commands of init_card go out in the order GO_IDLE_STATE,
\* SEND_OP_COND (the query, then retries), ALL_SEND_CID,
\* SET_RELATIVE_ADDR, SEND_CSD, SET_DSR if any, SELECT_CARD; no stage is
\* entered before all mandatory earlier ones, none is entered again, and a
\* command of these stages that fails is the last command of the bring-up,
\* which returns an error.
C20_IdentificationOrder ==
    (op.name = "init" /\ res # "-")
      => /\ \A i, j \in CommandIdx :
              i < j => \/ StageAt(i) < StageAt(j)
                       \/ /\ StageAt(i) = StageAt(j)
                          /\ StageAt(i) \in {1, 7}
         /\ \A j \in CommandIdx :
              \A s \in MandatoryStages :
                s < StageAt(j) => \E i \in CommandIdx :
                                    i < j /\ StageAt(i) = s
         /\ Issued(MMC_ALL_SEND_CID) # {}
              => Cardinality(Issued(MMC_SEND_OP_COND)) >= 2
         /\ \A n \in op.sc.bad :
              (/\ FailingHw(op.sc.badHw)
               /\ n < Cardinality(CommandIdx)
               /\ StageAt(NthCommand(n)) < 7)
                => /\ Cardinality(CommandIdx) = n + 1
                   /\ res \notin {"Ok", "Panic"}

\* SEND_CSD fails: it is the sixth and last command
C20_Witness ==
    /\ op.name = "init"
    /\ op.sc.bad = {5}
    /\ res = "Crc"
    /\ Cardinality(CommandIdx) = 6
    /\ StageAt(LastCommand) = 4
    /\ Issued(MMC_SELECT_CARD) = {}

----------------------------------------------------------------------------
(* C21 *)

\* positions of the SWITCH commands that write the HS_TIMING field
TimingSwitches ==
    {i \in Issued(MMC_SWITCH) :
       ArgOf(i).hi = MMC_SWITCH_MODE_WRITE_BYTE * 256 + EXT_CSD_HS_TIMING}

\* positions of the SWITCH commands that write the BUS_WIDTH field
BusWidthSwitches ==
    WidthSwitches(EXT_CSD_BUS_WIDTH_8) \cup WidthSwitches(EXT_CSD_BUS_WIDTH_4)

\* bus-width selection has finished before position i: a BUS_WIDTH SWITCH
\* and the EXT_CSD read that verifies it came before i, and no BUS_WIDTH
\* SWITCH comes after i
WidthSelectedBefore(i) ==
    /\ \E w \in BusWidthSwitches :
         \E e \in Issued(MMC_SEND_EXT_CSD) : w < e /\ e < i
    /\ \A w \in BusWidthSwitches : w < i

\* C21: in a bring-up no SWITCH of the HS_TIMING field is issued before
\* bus-width selection (SWITCH of BUS_WIDTH and the verification read of
\* the EXT_CSD) has finished.
C21_WidthBeforeTiming ==
    (op.name = "init" /\ res # "-")
      => \A i \in TimingSwitches : WidthSelectedBefore(i)

----------------------------------------------------------------------------
(* C22 *)

\* a bring-up in which both bus-width candidates were tried and the
\* verification read of each came back different from the first copy:
\* mmc_select_bus_width returns BadMessage
WidthsExhausted ==
    /\ op.name = "init"
    /\ res # "-"
    /\ op.sc.testOk = {}
    /\ WidthSwitches(EXT_CSD_BUS_WIDTH_8) # {}
    /\ WidthSwitches(EXT_CSD_BUS_WIDTH_4) # {}

\* C22: when every bus-width candidate is rejected, EMmcHost::init still
\* returns Ok and leaves an initialized card on a 1-bit bus.
C22_ExhaustedWidthsNotFatal ==
    WidthsExhausted
      => /\ res = "Ok"
         /\ card[1].initialized
         /\ card[1].bus_width = 1

----------------------------------------------------------------------------
(* C23 *)

\* the number of commands issued before position i
CmdNo(i) == Cardinality({j \in CommandIdx : j < i})

\* the command issued at position i completed without an error
Succeeded(i) == ~(CmdNo(i) \in op.sc.bad /\ FailingHw(op.sc.badHw))

\* the value of the BUS_WIDTH field that stands for a bus width
ExtCsdBits(bus_width) ==
    IF bus_width = MMC_BUS_WIDTH_8BIT THEN EXT_CSD_BUS_WIDTH_8
    ELSE EXT_CSD_BUS_WIDTH_4

\* a call of mmc_select_bus_width that has returned
WidthReturned == op.name = "select_bus_width" /\ res # <<>>

\* a SWITCH to the width and its status poll succeeded, the controller
\* was then set to the width, and the EXT_CSD was then read again
SwitchedAndRead(bus_width) ==
    \E s \in WidthSwitches(ExtCsdBits(bus_width)) :
      \E p \in Issued(MMC_SEND_STATUS) :
        \E i \in IosIdx :
          \E e \in Issued(MMC_SEND_EXT_CSD) :
            /\ s < p /\ p < i /\ i < e
            /\ Succeeded(s) /\ Succeeded(p) /\ Succeeded(e)
            /\ log[i].v[1] = bus_width

\* the verification copy read at the width has each compared byte equal
\* to the byte of the first copy
CopyIdentical(bus_width) ==
    LET ext_csd == op.sc.ext
        test_csd == TestCsd(op.sc, bus_width)
    IN  /\ test_csd.partitioning_support = ext_csd.partitioning_support
        /\ test_csd.hc_wp_grp_size = ext_csd.hc_wp_grp_size
        /\ test_csd.rev = ext_csd.rev
        /\ test_csd.hc_erase_grp_size = ext_csd.hc_erase_grp_size
        /\ test_csd.sec_cnt.lo % 256 = ext_csd.sec_cnt.lo % 256
        /\ test_csd.sec_cnt.lo \div 256 = ext_csd.sec_cnt.lo \div 256
        /\ test_csd.sec_cnt.hi % 256 = ext_csd.sec_cnt.hi % 256
        /\ test_csd.sec_cnt.hi \div 256 = ext_csd.sec_cnt.hi \div 256

\* C23: when mmc_select_bus_width returns Ok(width), the width is 4 or 8,
\* the SWITCH to it succeeded, the controller was set to it, the EXT_CSD
\* was read again after that, and partitioning support, write-protect
\* group size, revision, erase group size and the four sector count bytes
\* of that copy equal those of the copy read before the first SWITCH; a
\* width whose copy differs in one of them is never returned.
C23_AcceptedWidthVerified ==
    (WidthReturned /\ res[1] = "Ok")
      => /\ res[2] \in {MMC_BUS_WIDTH_4BIT, MMC_BUS_WIDTH_8BIT}
         /\ SwitchedAndRead(res[2])
         /\ CopyIdentical(res[2])
         /\ card[1].bus_width = res[2]

\* the 8-bit copy differs in the revision byte only and the 4-bit copy is
\* identical: 4 is returned
C23_Witness ==
    /\ WidthReturned
    /\ res = <<"Ok", MMC_BUS_WIDTH_4BIT>>
    /\ op.sc.testOk = {MMC_BUS_WIDTH_4BIT}
    /\ op.sc.testField = "rev"
    /\ op.sc.bad = {}
    /\ WidthSwitches(EXT_CSD_BUS_WIDTH_8) # {}

----------------------------------------------------------------------------
(* C24 *)

\* the bus width the controller was last programmed with, 0 if it was
\* not reprogrammed
LastIosWidth ==
    IF IosIdx = {} THEN 0
    ELSE log[CHOOSE i \in IosIdx : \A j \in IosIdx : j <= i].v[1]

\* C24: when mmc_select_bus_width returns, the bus width of the card
\* record and of the controller is the width mmc_select_bus_width
\* returned as accepted, or else the width in effect when it was called
\* (1 bit); it is never a width that was rejected.
C24_RejectedWidthNotKept ==
    WidthReturned
      => IF res[1] = "Ok"
         THEN card[1].bus_width = res[2] /\ LastIosWidth = res[2]
         ELSE card[1].bus_width = 1 /\ LastIosWidth = 0

----------------------------------------------------------------------------
(* C25 *)

\* a bring-up in which nothing but the card-type byte of the EXT_CSD
\* departs from a card and controller that answer every command
ModeSelectionCase ==
    /\ op.name = "init"
    /\ res # "-"
    /\ op.sc = [BaseScript EXCEPT !.ext.card_type = op.sc.ext.card_type]

\* host and card both have a mode
BothSupport(mode, card_types) ==
    /\ AnyCommon(host_caps, mode)
    /\ AnyCommon(op.sc.ext.card_type, card_types)

\* C25: a bring-up ends with the fastest timing that host and card both
\* support: HS200 if both have it, else High-Speed if both have it, else
\* legacy timing; in each of the three cases init returns Ok.
C25_HighestCommonTiming ==
    ModeSelectionCase
      => /\ res = "Ok"
         /\ card[1].initialized
         /\ card[1].timing =
              IF BothSupport(MMC_MODE_HS200, EXT_CSD_CARD_TYPE_HS200_1_8V)
              THEN MMC_TIMING_MMC_HS200
              ELSE IF BothSupport(MMC_MODE_HS, EXT_CSD_CARD_TYPE_HS)
              THEN MMC_TIMING_MMC_HS
              ELSE MMC_TIMING_LEGACY

----------------------------------------------------------------------------
(* C26 *)

\* the card-type bits a result of mmc_select_card_type can be made of
CardTypeBits ==
    {EXT_CSD_CARD_TYPE_26, EXT_CSD_CARD_TYPE_52, EXT_CSD_CARD_TYPE_DDR_1_8V,
     EXT_CSD_CARD_TYPE_DDR_1_2V, EXT_CSD_CARD_TYPE_HS200_1_8V,
     EXT_CSD_CARD_TYPE_HS200_1_2V, EXT_CSD_CARD_TYPE_HS400_1_8V,
     EXT_CSD_CARD_TYPE_HS400_1_2V, EXT_CSD_CARD_TYPE_HS400ES}

\* the host capabilities a mode needs
HostBacks(bit) ==
    IF bit = EXT_CSD_CARD_TYPE_26 THEN HasAll(host_caps, MMC_MODE_HS)
    ELSE IF bit = EXT_CSD_CARD_TYPE_52
    THEN HasAll(host_caps, MMC_MODE_HS + MMC_MODE_HS_52MHZ)
    ELSE IF bit \in {EXT_CSD_CARD_TYPE_DDR_1_8V, EXT_CSD_CARD_TYPE_DDR_1_2V}
    THEN HasAll(host_caps, MMC_MODE_DDR_52MHZ)
    ELSE IF bit \in {EXT_CSD_CARD_TYPE_HS200_1_8V,
                     EXT_CSD_CARD_TYPE_HS200_1_2V}
    THEN HasAll(host_caps, MMC_MODE_HS200)
    ELSE IF bit \in {EXT_CSD_CARD_TYPE_HS400_1_8V,
                     EXT_CSD_CARD_TYPE_HS400_1_2V}
    THEN HasAll(host_caps, MMC_MODE_HS400 + MMC_MODE_8BIT)
    ELSE HasAll(host_caps, MMC_MODE_HS400ES + MMC_MODE_8BIT)

\* the card advertises a mode: in its card-type byte, or, for enhanced
\* strobe, in its strobe-support byte
CardAdvertises(ext_csd, bit) ==
    IF bit = EXT_CSD_CARD_TYPE_HS400ES THEN ext_csd.strobe_support # 0
    ELSE AnyCommon(ext_csd.card_type, bit)

\* C26: every mode bit of the mask mmc_select_card_type returns is
\* advertised by the card and backed by the host capabilities the mode
\* needs (the 8-bit capability too for HS400); the mask has no other bit.
C26_MaskWithinHostAndCard ==
    (op.name = "select_card_type" /\ res # <<>>)
      => /\ res[1] \in 0..511
         /\ \A bit \in CardTypeBits :
              AnyCommon(res[1], bit)
                => CardAdvertises(op.ext_csd, bit) /\ HostBacks(bit)

\* the card advertises every mode of its card-type byte and enhanced
\* strobe; the mask keeps 26 MHz, 52 MHz and HS200 at 1.8 V and leaves out
\* the DDR and HS400 modes the host does not have
C26_Witness ==
    /\ op.name = "select_card_type"
    /\ op.ext_csd.card_type = 255
    /\ op.ext_csd.strobe_support = 1
    /\ res = <<EXT_CSD_CARD_TYPE_26 + EXT_CSD_CARD_TYPE_52
               + EXT_CSD_CARD_TYPE_HS200_1_8V>>

----------------------------------------------------------------------------
(* C27 *)

\* a call of mmc_hs200_tuning that has returned
TuningReturned == op.name = "hs200_tuning" /\ res # <<>>

TuningCommands == Issued(MMC_SEND_TUNING_BLOCK_HS200)

\* the reads of host control 2 made by the loop: all but the first one,
\* which mmc_hs200_tuning makes to set the execute-tuning bit
LoopReads == Cardinality(ReadsOf("HOST_CTRL2")) - 1

\* the i-th read of the loop sees the execute-tuning bit cleared
ReadCleared(i) == ~Test(TuningCtrl(op.sc, i), MMC_CTRL_EXEC_TUNING)

\* the i-th read of the loop sees the tuned-clock bit set
ReadTuned(i) == Test(TuningCtrl(op.sc, i), MMC_CTRL_TUNED_CLK)

\* C27: the tuning loop issues at most 40 tuning commands and reads host
\* control 2 once after each command that completed; it returns Ok
\* exactly when a read sees the execute-tuning bit cleared with the
\* tuned-clock bit set; a read that sees the bit cleared is the last one,
\* no tuning command follows it, and without the tuned-clock bit the
\* result is an error; when 40 commands completed and no read saw the bit
\* cleared the result is Timeout.
C27_TuningLoop ==
    TuningReturned
      => /\ Cardinality(TuningCommands) <= MAX_TUNING_LOOP
         /\ LoopReads \in {Cardinality(TuningCommands),
                           Cardinality(TuningCommands) - 1}
         /\ res[1] = "Ok"
              <=> \E i \in 1..LoopReads : ReadCleared(i) /\ ReadTuned(i)
         /\ \A i \in 1..LoopReads :
              ReadCleared(i)
                => /\ i = LoopReads
                   /\ Cardinality(TuningCommands) = i
                   /\ ~ReadTuned(i) => res[1] # "Ok"
         /\ (/\ LoopReads = MAX_TUNING_LOOP
             /\ \A i \in 1..LoopReads : ~ReadCleared(i))
              => res[1] = "Timeout"

\* the bit is cleared after the second command without the tuned-clock
\* bit: two commands, then an error
C27_Witness ==
    /\ TuningReturned
    /\ op.sc.tuneAfter = 2
    /\ ~op.sc.tuned
    /\ op.sc.bad = {}
    /\ Cardinality(TuningCommands) = 2
    /\ res = <<"Timeout">>

\* the bit never clears: forty commands, then Timeout
C27_Exhausted ==
    /\ TuningReturned
    /\ op.sc.tuneAfter = Never
    /\ op.sc.bad = {}
    /\ Cardinality(TuningCommands) = MAX_TUNING_LOOP
    /\ res = <<"Timeout">>

\* the bit clears after the fortieth command with the tuned-clock bit set
C27_LastIteration ==
    /\ TuningReturned
    /\ op.sc.tuneAfter = MAX_TUNING_LOOP
    /\ Cardinality(TuningCommands) = MAX_TUNING_LOOP
    /\ res = <<"Ok">>

----------------------------------------------------------------------------
(* C28 *)

\* a bring-up that selected HS200 timing has returned
Hs200Selected ==
    /\ op.name = "init"
    /\ res # "-"
    /\ card[1].timing = MMC_TIMING_MMC_HS200

\* the tuning of the bring-up succeeded: a read of the loop saw the
\* execute-tuning bit cleared with the tuned-clock bit set
TuningSucceeded ==
    \E i \in 1..LoopReads : ReadCleared(i) /\ ReadTuned(i)

\* the bring-up part of C28: after the SWITCH to HS200 timing only tuning
\* commands are issued, initialized is set only after a successful
\* tuning, and a tuning that does not succeed makes init return an error.
C28_TunedBeforeInitialized ==
    Hs200Selected
      => /\ \A t \in TimingSwitches :
              \A c \in CommandIdx :
                (t < c /\ \A u \in TimingSwitches : u <= t)
                  => c \in TuningCommands
         /\ card[1].initialized => TuningSucceeded
         /\ TuningSucceeded <=> res = "Ok"
         /\ res = "Ok" <=> card[1].initialized

\* C28: when HS200 timing was selected, tuning has succeeded before
\* initialized is set and before any data-transfer command is issued: a
\* tuning that fails makes init return an error, and a card in HS200
\* timing that a block operation sends a data command to is a card whose
\* bring-up was completed by a successful tuning (initialized is set).
C28_TunedBeforeTransfer ==
    /\ C28_TunedBeforeInitialized
    /\ (/\ IsBlockOp
        /\ card # None
        /\ card[1].timing = MMC_TIMING_MMC_HS200
        /\ DataCommands # {})
         => card[1].initialized

----------------------------------------------------------------------------
(* C29 *)

\* the interrupt status bit that ends the completion wait of a command
CompletionBit(cmd) ==
    IF cmd.opcode = MMC_SEND_TUNING_BLOCK_HS200 THEN EMMC_INT_DATA_AVAIL
    ELSE EMMC_INT_RESPONSE

\* the status reads of the completion wait: those between the command
\* register write and the next register write
WaitReads ==
    {i \in ReadsOf("NORMAL_INT_STAT") :
       \E c \in CommandIdx :
         /\ c < i
         /\ \A j \in 1..Len(log) : (c < j /\ j < i) => log[j].k # "w"}

\* a command was issued to a controller that raises no error for it
IssuedWithoutError ==
    /\ op.name = "send_command"
    /\ res # "-"
    /\ CommandIdx # {}
    /\ ~Test(op.hw.stat, EMMC_INT_ERROR)

\* C29: the completion wait of a tuning command ends at the first status
\* read that shows the data-available bit and that of any other command
\* at the first read that shows the command-complete bit; without that
\* bit the wait runs out of its budget and send_command returns Timeout.
C29_CompletionBit ==
    IssuedWithoutError
      => IF Test(op.hw.stat, CompletionBit(op.cmd))
         THEN /\ Cardinality(WaitReads) = op.hw.pre + 1
              /\ \E i \in WritesOf("NORMAL_INT_STAT") :
                   \A c \in CommandIdx : c < i
         ELSE /\ Cardinality(WaitReads) = CompletionBudget(op.cmd) + 1
              /\ res = "Timeout"

\* what send_command does: every command, the tuning command included,
\* waits for command-complete (with data-end for a busy response with
\* data)
C29_AsComputed ==
    IssuedWithoutError
      => IF HasAll(op.hw.stat, IntMask(op.cmd))
         THEN /\ Cardinality(WaitReads) = op.hw.pre + 1
              /\ \E i \in WritesOf("NORMAL_INT_STAT") :
                   \A c \in CommandIdx : c < i
         ELSE /\ Cardinality(WaitReads) = CompletionBudget(op.cmd) + 1
              /\ res = "Timeout"

----------------------------------------------------------------------------
(* C30 *)

\* the command at position i and the argument it was issued with
CommandAt(i) == <<log[i].v, ArgOf(i)>>

\* the commands of a bring-up that the controller failed
FailedCommands ==
    {i \in CommandIdx : CmdNo(i) \in op.sc.bad /\ FailingHw(op.sc.badHw)}

\* the command at position j is the one issued next after position i
NextCommand(i, j) ==
    /\ j \in CommandIdx
    /\ i < j
    /\ \A k \in CommandIdx : ~(i < k /\ k < j)

\* the command at position i is sent again as the next command
Reissued(i) ==
    \E j \in CommandIdx : NextCommand(i, j) /\ CommandAt(j) = CommandAt(i)

\* C30: in one bring-up a command that failed is not sent again in answer
\* to its failure, unless it is the SEND_OP_COND poll; a SWITCH that
\* failed in particular is sent once.
C30_FailedCommandNotReissued ==
    (op.name = "init" /\ res # "-")
      => \A i \in FailedCommands :
           log[i].v \div 256 # MMC_SEND_OP_COND => ~Reissued(i)

\* what the bring-up does: SWITCH is the one command that is sent again
\* in answer to its failure
C30_OnlySwitchReissued ==
    (op.name = "init" /\ res # "-")
      => \A i \in FailedCommands :
           log[i].v \div 256 # MMC_SWITCH => ~Reissued(i)

----------------------------------------------------------------------------
(* C31 *)

\* a call of mmc_send_op_cond that has returned
OpCondReturned == op.name = "send_op_cond" /\ res # <<>>

\* the SEND_OP_COND commands of the call
OpCondCommands == Issued(MMC_SEND_OP_COND)

\* the first of them
FirstOpCond == CHOOSE i \in OpCondCommands : \A j \in OpCondCommands : i <= j

\* HCS, the voltage bits of the first answer that the host supplies too,
\* and the access-mode bits of the first answer
RetryArgument ==
    Or32(Or32(ocr_hcs,
              And32(Voltages(op.sc.vdd), And32(op.sc.ocr, ocr_voltage_mask))),
         And32(op.sc.ocr, ocr_access_mode))

\* C31: the first SEND_OP_COND of mmc_send_op_cond carries the caller's
\* argument; every later one carries the one retry argument computed from
\* the first answer (HCS, the common voltage bits, the access-mode bits),
\* whatever the later answers are.
C31_FixedRetryArgument ==
    (OpCondReturned /\ OpCondCommands # {})
      => \A i \in OpCondCommands :
           ArgOf(i) = IF i = FirstOpCond THEN op.ocr ELSE RetryArgument

\* three retries whose answers differ from the first answer in the
\* capacity and voltage bits, all sent with the argument of the first
C31_Witness ==
    /\ OpCondReturned
    /\ op.ocr = W(0)
    /\ op.sc.ocr = [hi |-> 16639, lo |-> 32896]
    /\ op.sc.ocrLater = <<[hi |-> 24576, lo |-> 128]>>
    /\ op.sc.vdd = 330
    /\ op.sc.ocrBusyAfter = 2
    /\ op.sc.bad = {}
    /\ Cardinality(OpCondCommands) = 4
    /\ \A i \in OpCondCommands \ {FirstOpCond} :
         ArgOf(i) = [hi |-> 16384 + 48, lo |-> 0]
    /\ res = <<"Ok">>

----------------------------------------------------------------------------
(* C32 *)

\* the answer to SEND_OP_COND that carries the busy bit
BusyAnswer(sc) == OcrResponse(sc, sc.ocrBusyAfter)

\* that answer carries HCS
HcsEchoed(sc) == And32(BusyAnswer(sc), ocr_hcs) = ocr_hcs

\* the high-capacity markings of a card: the state bit, the card type and
\* the high_capacity value
Markings(c) ==
    <<StateHighCapacity(c), c.card_type = "MmcHc", c.high_capacity>>

\* a bring-up that got past mmc_send_op_cond: the RCA is assigned right
\* after it
OpCondPassed == op.name = "init" /\ res # "-" /\ card[1].rca = W(1)

\* the markings as negotiated, at the return of mmc_send_op_cond alone and
\* at the return of the whole bring-up
MarkedAsNegotiated ==
    /\ (OpCondReturned /\ res = <<"Ok">>)
         => /\ StateHighCapacity(card[1]) <=> HcsEchoed(op.sc)
            /\ card[1].card_type = "MmcHc" <=> HcsEchoed(op.sc)
    /\ OpCondPassed
         => \A i \in 1..3 : Markings(card[1])[i] <=> HcsEchoed(op.sc)

\* a block operation addresses the card by the marking: the block number
\* on a high-capacity card, the byte address on a standard-capacity card
\* (for the block numbers whose byte address fits 32 bits)
TranslatedByMarking ==
    (IsBlockOp /\ card # None /\ Fits512(op.block_addr))
      => \A i \in DataCommands :
           IF StateHighCapacity(card[1]) THEN ArgOf(i) = op.block_addr
           ELSE IsTimes512(ArgOf(i), op.block_addr)

\* no step but a new bring-up changes the markings of the card
MarkingsKept ==
    (card # None /\ card' # None /\ op'.name # "init")
      => Markings(card'[1]) = Markings(card[1])

\* C32: after mmc_send_op_cond succeeded the card is marked high-capacity
\* (state bit, card type MmcHc, high_capacity) exactly when the answer
\* with the busy bit carries HCS; no later bring-up step and no block
\* operation changes the marking; and the block operations translate the
\* block address by it.
C32_NegotiatedCapacity ==
    /\ [](MarkedAsNegotiated /\ TranslatedByMarking)
    /\ [][MarkingsKept]_vars

\* the marking part alone, which holds
C32_MarkingAsComputed == [](MarkedAsNegotiated) /\ [][MarkingsKept]_vars

\* the translation of the operations that translate
C32_TranslationWhereDone ==
    op.name = "read_block" \/ TranslatedByMarking

----------------------------------------------------------------------------
(* C33 *)

\* the response-format field of a command register value: its low two bits
ResponseFormat(command) == command % 4

\* the commands of a bring-up that carry the RCA
RcaCommands ==
    Issued(MMC_SET_RELATIVE_ADDR) \cup Issued(MMC_SEND_CSD)
    \cup Issued(MMC_SELECT_CARD)

\* a bring-up that issued SELECT_CARD
CardSelected == op.name = "init" /\ res # "-" /\ Issued(MMC_SELECT_CARD) # {}

\* C33: the SELECT_CARD of a bring-up is issued with the
\* 48-bit-with-busy response format in the command register, and its
\* argument is the RCA in the upper 16 bits, the same argument as
\* SET_RELATIVE_ADDR and SEND_CSD carry.
C33_SelectCardBusy ==
    CardSelected
      => /\ \A i \in Issued(MMC_SELECT_CARD) :
              ResponseFormat(log[i].v) = EMMC_CMD_RESP_SHORT_BUSY
         /\ \A i \in RcaCommands : ArgOf(i) = Shl16(card[1].rca)

\* as the code does it: the same argument, the plain 48-bit format
C33_SelectCardAsIssued ==
    CardSelected
      => /\ \A i \in Issued(MMC_SELECT_CARD) :
              ResponseFormat(log[i].v) = EMMC_CMD_RESP_SHORT
         /\ \A i \in RcaCommands : ArgOf(i) = Shl16(card[1].rca)
         /\ card[1].rca = W(1)

----------------------------------------------------------------------------
(* C34 *)

\* the protocol version that init_card derives from the CSD of the script
CsdDerivedVersion(sc) ==
    VersionOfCsd([version |-> MMC_VERSION_UNKNOWN, csd |-> sc.csd])

\* a call of init_card that has returned, for a card whose CSD gives a
\* version below 4
OldCardBroughtUp ==
    /\ op.name = "init_card"
    /\ res # <<>>
    /\ CsdDerivedVersion(op.sc) < MMC_VERSION_4

\* C34: the bring-up of a card whose CSD gives a version below 4 issues no
\* SEND_EXT_CSD and no SWITCH, reprograms neither bus width nor timing,
\* and, when the controller completes every command, returns Ok with
\* initialized = true.
C34_OldCardsSkipExtended ==
    OldCardBroughtUp
      => /\ Issued(MMC_SEND_EXT_CSD) = {}
         /\ Issued(MMC_SWITCH) = {}
         /\ IosIdx = {}
         /\ card[1].bus_width = 1
         /\ card[1].timing = MMC_TIMING_LEGACY
         /\ op.sc.bad = {}
              => /\ res = <<"Ok">>
                 /\ card[1].initialized

\* a version 3 card: seven commands, SELECT_CARD the last, and an
\* initialized card
C34_Witness ==
    /\ OldCardBroughtUp
    /\ op.sc.csd = CsdOfVersion(3)
    /\ op.sc.bad = {}
    /\ card[1].version = MMC_VERSION_3
    /\ Cardinality(CommandIdx) = 7
    /\ Issued(MMC_SELECT_CARD) # {}
    /\ res = <<"Ok">>
    /\ card[1].initialized

----------------------------------------------------------------------------
(* C35 *)

\* positions where data moves through the buffer data port, in either
\* direction
DataPortIdx == {i \in 1..Len(log) : log[i].k \in {"push", "pull"}}

\* before position i the command register was written, the controller
\* reported command-complete without the error bit, and send_command
\* acknowledged it
CompletedBefore(i) ==
    /\ Test(op.hw.stat, EMMC_INT_RESPONSE)
    /\ ~Test(op.hw.stat, EMMC_INT_ERROR)
    /\ \E c \in CommandIdx, a \in WritesOf("NORMAL_INT_STAT") :
         c < a /\ a < i

\* a call of send_command that has returned
CommandReturned == op.name = "send_command" /\ res # "-"

\* C35: send_command moves data through the buffer data port only after
\* the command phase has completed without error, for reads and writes,
\* single-block and multi-block.
C35_NoDataBeforeCompletion ==
    CommandReturned => \A i \in DataPortIdx : CompletedBefore(i)

\* the same for every descriptor but the single-block write
C35_ExceptSingleBlockWrite ==
    (CommandReturned /\ (op.cmd.data_dir_read \/ op.cmd.block_count > 1))
      => \A i \in DataPortIdx : CompletedBefore(i)

\* the single-block write moves its block ahead of the command register
\* write, whatever the controller answers afterwards
C35_SingleBlockWriteFirst ==
    (/\ CommandReturned
     /\ op.cmd.data_present
     /\ ~op.cmd.data_dir_read
     /\ op.cmd.block_count = 1
     /\ op.buf.kind = "Write")
      => /\ PushIdx # {}
         /\ \A i \in PushIdx, c \in CommandIdx : i < c

----------------------------------------------------------------------------
(* C36 *)

\* the descriptor moves data and the buffer is missing or of the other
\* kind
BufferMismatch ==
    /\ op.cmd.data_present
    /\ \/ op.buf.kind = "None"
       \/ op.buf.kind = "Read" /\ ~op.cmd.data_dir_read
       \/ op.buf.kind = "Write" /\ op.cmd.data_dir_read

\* C36: send_command called with a data descriptor and no buffer, or a
\* buffer of the kind that does not match the descriptor's direction,
\* returns InvalidArgument and never writes the command register.
C36_MismatchRefused ==
    (CommandReturned /\ BufferMismatch)
      => /\ res = "InvalidArgument"
         /\ CommandIdx = {}

\* a read descriptor sent with a write buffer: the transfer registers are
\* programmed, nothing is pushed, the command register is left alone
C36_Witness ==
    /\ CommandReturned
    /\ op.cmd.opcode = MMC_READ_SINGLE_BLOCK
    /\ op.buf.kind = "Write"
    /\ WritesOf("XFER_MODE") # {}
    /\ DataPortIdx = {}
    /\ CommandIdx = {}
    /\ res = "InvalidArgument"

----------------------------------------------------------------------------
(* C37 *)

\* the command register values of a descriptor have been computed
RegistersComputed == op.name = "command_register" /\ res # <<>>

\* a flag of the response type of the descriptor
Expects(flag) == (op.cmd.resp_type \div flag) % 2 = 1

\* the response-format field: none, 136-bit, 48-bit with busy, 48-bit
FormatOfResponse ==
    CASE ~Expects(MMC_RSP_PRESENT) -> 0
      [] Expects(MMC_RSP_PRESENT) /\ Expects(MMC_RSP_136) -> 1
      [] Expects(MMC_RSP_PRESENT) /\ ~Expects(MMC_RSP_136)
         /\ Expects(MMC_RSP_BUSY) -> 3
      [] OTHER -> 2

\* C37: for every descriptor the eMMC and the SD command engine write the
\* same command register value: the opcode shifted left by 8, the response
\* format, and the CRC-check, index-check and data-present bits exactly
\* when the descriptor asks for them.
C37_SameCommandRegister ==
    RegistersComputed
      => /\ res[1] = res[2]
         /\ res[1] \div 256 = op.cmd.opcode
         /\ res[1] % 4 = FormatOfResponse
         /\ (res[1] \div 4) % 2 = 0
         /\ (res[1] \div 8) % 2 = 1 <=> Expects(MMC_RSP_CRC)
         /\ (res[1] \div 16) % 2 = 1 <=> Expects(MMC_RSP_OPCODE)
         /\ (res[1] \div 32) % 2 = 1 <=> op.cmd.data_present
         /\ (res[1] \div 64) % 4 = 0

\* a long response that also expects busy, with data: both engines write
\* the long format
C37_Witness ==
    /\ RegistersComputed
    /\ op.cmd.opcode = 17
    /\ op.cmd.resp_type = MMC_RSP_R2 + MMC_RSP_BUSY
    /\ op.cmd.data_present
    /\ res = <<17 * 256 + 1 + 8 + 32, 17 * 256 + 1 + 8 + 32>>

----------------------------------------------------------------------------
(* C38 *)

\* the command register was written and the status never shows
\* command-complete, transfer-complete or the error bit
NeverAnswered ==
    /\ CommandReturned
    /\ CommandIdx # {}
    /\ ~AnyCommon(op.hw.stat,
                  EMMC_INT_RESPONSE + EMMC_INT_DATA_END + EMMC_INT_ERROR)

\* the iterations of the completion wait: the 100 us delays it made
WaitIterations ==
    Cardinality({i \in DelayIdx : log[i].v = 100
                                  /\ \E c \in CommandIdx : c < i})

\* C38: when no completion bit and no error bit ever appears after the
\* command register is written, send_command returns Timeout after
\* CMD_MAX_TIMEOUT = 500 iterations of the status poll for GO_IDLE_STATE
\* and SEND_OP_COND and after CMD_DEFAULT_TIMEOUT = 100 iterations for
\* every other command, one status read per iteration and one more that
\* finds the budget used up.
C38_TimeoutBudget ==
    NeverAnswered
      => /\ res = "Timeout"
         /\ WaitIterations =
              IF op.cmd.opcode \in {MMC_GO_IDLE_STATE, MMC_SEND_OP_COND}
              THEN 500 ELSE 100
         /\ Cardinality(ReadsOf("NORMAL_INT_STAT")) = WaitIterations + 1
         /\ CMD_MAX_TIMEOUT > CMD_DEFAULT_TIMEOUT

\* SEND_OP_COND on a controller that stays silent: 500 iterations
C38_Witness ==
    /\ NeverAnswered
    /\ op.cmd.opcode = MMC_SEND_OP_COND
    /\ op.hw.stat = 0
    /\ WaitIterations = CMD_MAX_TIMEOUT
    /\ Cardinality(ReadsOf("NORMAL_INT_STAT")) = 501
    /\ res = "Timeout"

\* a data command on a controller that stays silent: 100 iterations
C38_DefaultBudget ==
    /\ NeverAnswered
    /\ op.cmd.opcode = MMC_READ_SINGLE_BLOCK
    /\ WaitIterations = CMD_DEFAULT_TIMEOUT
    /\ res = "Timeout"

----------------------------------------------------------------------------
(* C39 *)

\* the views of a response have been computed
ViewsComputed == op.name = "response" /\ res # <<>>

\* the four bytes of a word, the most significant first
BytesOfWord(w) ==
    <<w.hi \div 256, w.hi % 256, w.lo \div 256, w.lo % 256>>

\* the sixteen bytes of four words, the first word the most significant
BytesOfWords(ws) ==
    BytesOfWord(ws[1]) \o BytesOfWord(ws[2]) \o BytesOfWord(ws[3])
    \o BytesOfWord(ws[4])

\* the raw response as one 128-bit value: raw[3] of the code is the most
\* significant word
RawValue == BytesOfWords(<<op.raw[4], op.raw[3], op.raw[2], op.raw[1]>>)

\* C39: as_r2 returns the 128-bit value of the four raw words, raw[3] the
\* most significant, shifted left by 8 bits: most significant word first,
\* the top byte shifted out, the low 8 bits zero; as_r1, as_r3, as_r6 and
\* as_r7 return raw word 0 unchanged.
C39_ResponseViews ==
    ViewsComputed
      => /\ BytesOfWords(res[2]) = Tail(RawValue) \o <<0>>
         /\ res[1] = op.raw[1]
         /\ res[3] = op.raw[1]
         /\ res[4] = op.raw[1]
         /\ res[5] = op.raw[1]

\* raw = 0x12345678, 0xFFFFFFFF, 0x80A100FF, 0x12345678 (word 0 first):
\* the long view is 0x34567880, 0xA100FFFF, 0xFFFFFF12, 0x34567800
C39_Witness ==
    /\ ViewsComputed
    /\ op.raw = <<[hi |-> 4660, lo |-> 22136], [hi |-> 65535, lo |-> 65535],
                  [hi |-> 32929, lo |-> 255], [hi |-> 4660, lo |-> 22136]>>
    /\ res[2] = <<[hi |-> 13398, lo |-> 30848], [hi |-> 41216, lo |-> 65535],
                  [hi |-> 65535, lo |-> 65298], [hi |-> 13398, lo |-> 30720]>>
    /\ res[1] = [hi |-> 4660, lo |-> 22136]

----------------------------------------------------------------------------
(* C40 *)

\* a call of init_card that has ended
InitCardEnded == op.name = "init_card" /\ res # <<>>

\* the revisions the match at mod.rs:363-372 has an arm for, among those
\* that reach it (rev >= 2)
KnownRevisions == {2, 3, 5, 6, 7, 8}

\* C40: init_card never aborts, whatever the card returns: for every
\* EXT_CSD revision byte, every card-type bitmap and every CSD content it
\* either completes or returns an Err to the caller.
C40_InitCardNeverAborts == InitCardEnded => res # <<"panic">>

\* what holds instead: init_card aborts exactly for a version 4 card whose
\* EXT_CSD, once read, has a revision of 2 or more without an arm in the
\* match; the card-type bitmap makes no difference
C40_AbortsOnUnknownRevision ==
    (InitCardEnded /\ op.sc \in RevisionScripts)
      => (res = <<"panic">>
            <=> /\ op.sc.ext.rev >= 2
                /\ op.sc.ext.rev \notin KnownRevisions)

\* revisions 0 and 1 do not reach the match and are brought up
C40_LowRevisionsPass ==
    /\ InitCardEnded
    /\ op.sc \in RevisionScripts
    /\ op.sc.ext.rev = 1
    /\ res = <<"Ok">>

====
